---- MODULE Spec2Model ----
(***************************************************************************)
(* A model of AmiFUSE's icon pipeline: the converted-icon LRU cache and    *)
(* the icon-existence cache (icon_cache.py), the resource fork and         *)
(* FinderInfo builders (resource_fork.py, icon_darwin.py) and the .info    *)
(* parser (icon_parser.py).                                                *)
(*                                                                         *)
(* Conventions.  A Python dict is a sequence of entries in insertion       *)
(* order (assigning to a present key keeps its place, a new key goes to    *)
(* the end).  None is the model value None.  time.time() reads the clock   *)
(* variable now, which the environment advances (action Tick); two calls   *)
(* inside one clock reading get equal stamps.  The bytes held by the       *)
(* IconCache are represented by their length and a content tag, so that    *)
(* the real megabyte budget of the cache is kept.                          *)
(***************************************************************************)
EXTENDS Integers, Sequences, FiniteSets, TLC

VARIABLES
    max_entries,     \* IconCache._max_entries
    max_memory,      \* IconCache._max_memory (bytes)
    cache,           \* IconCache._cache: sequence of [path, data, time]
    current_memory,  \* IconCache._current_memory
    now,             \* the reading of time.time()
    op,              \* the last call made: [name, path]
    ret,             \* what the last call returned
    lru,             \* history: the stored paths, least recently put/get first
    putLog,          \* history: [ok, latest]; ok while only in-budget put and
                     \* get calls were made, latest: path -> bytes last put
    ttl,             \* IconExistenceCache._ttl
    exist,           \* IconExistenceCache._cache: path -> [has_icon, timestamp]
    which,           \* the cache instance the threads share
    lock,            \* the owner of that instance's _lock, or None
    th,              \* per thread: where it is in its call, and its locals
    request,         \* the builder or parser call made: [fn, arguments]
    reply,           \* what that call returned
    pending_msgs,    \* pending_ports.pending_msgs: port -> list of messages
    default_msgs,    \* pending_ports.default_msgs
    queued,          \* history: per queue, the messages queued, in order
    delivered        \* history: per queue, the messages popped, in order

cacheVars == <<max_entries, max_memory, cache, current_memory, lru, putLog>>
existVars == <<ttl, exist>>
concVars == <<which, lock, th>>
pureVars == <<request, reply>>
portVars == <<pending_msgs, default_msgs, queued, delivered>>
vars == <<cacheVars, existVars, concVars, pureVars, portVars, now, op, ret>>

outsideCache == <<existVars, concVars, pureVars, portVars>>
outsideExist == <<cacheVars, concVars, pureVars, portVars>>

None == "None"

(***************************************************************************)
(* Bounds of the model                                                     *)
(***************************************************************************)
MaxTime == 2          \* the clock reads 0..MaxTime
MaxDriftMiB == 1      \* _current_memory is followed down to -MaxDriftMiB MiB

Paths == {"/a.info", "/b.info", "/c.info"}
EntryLimits == {1, 2}        \* the max_entries values a cache is built with
MemoryLimitsMb == {1}        \* the max_memory_mb values a cache is built with
ExistPaths == {"/a", "/b"}
Ttls == {0, 1}               \* the ttl_seconds values a cache is built with

MiB == 1024 * 1024

\* A byte string of the cache: its length and a tag telling contents apart.
\* Against a 1 MiB budget the lengths fall below, on and above the budget.
DataLens == {0, MiB, 2 * MiB}
Datas ==
    {[len |-> 0, id |-> 0]} \cup
    {[len |-> n, id |-> i] : n \in DataLens \ {0}, i \in 0..1}

(***************************************************************************)
(* dict helpers                                                            *)
(***************************************************************************)
Has(c, p) == \E i \in 1..Len(c) : c[i].path = p

IndexOf(c, p) == CHOOSE i \in 1..Len(c) : c[i].path = p

Lookup(c, p) == c[IndexOf(c, p)]

Remove(c, i) == [j \in 1..(Len(c) - 1) |-> IF j < i THEN c[j] ELSE c[j + 1]]

\* c[p] = (d, t)
Store(c, p, d, t) ==
    IF Has(c, p)
    THEN [c EXCEPT ![IndexOf(c, p)] = [path |-> p, data |-> d, time |-> t]]
    ELSE Append(c, [path |-> p, data |-> d, time |-> t])

Keys(c) == {c[i].path : i \in 1..Len(c)}

RECURSIVE SumLen(_)
SumLen(c) == IF c = <<>> THEN 0 ELSE Head(c).data.len + SumLen(Tail(c))

(***************************************************************************)
(* IconCache                                                               *)
(***************************************************************************)
\* The scan of _evict_if_needed: the first entry, in dict order, whose access
\* time is strictly smaller than every one before it and no larger than any.
OldestIndex(c) ==
    CHOOSE i \in 1..Len(c) :
        /\ \A j \in 1..Len(c) : c[i].time <= c[j].time
        /\ \A j \in 1..(i - 1) : c[j].time > c[i].time

NeedsEviction(c, mem, new_size, maxE, maxM) ==
    Len(c) >= maxE \/ mem + new_size > maxM

RECURSIVE _evict_if_needed(_, _, _, _, _)
_evict_if_needed(c, mem, new_size, maxE, maxM) ==
    IF NeedsEviction(c, mem, new_size, maxE, maxM) /\ c # <<>>
    THEN LET i == OldestIndex(c)
         IN  _evict_if_needed(Remove(c, i), mem - c[i].data.len, new_size, maxE, maxM)
    ELSE [cache |-> c, mem |-> mem]

\* The entries _evict_if_needed deletes, in order, each with the dict it was
\* deleted from.
RECURSIVE EvictionLog(_, _, _, _, _)
EvictionLog(c, mem, new_size, maxE, maxM) ==
    IF NeedsEviction(c, mem, new_size, maxE, maxM) /\ c # <<>>
    THEN LET i == OldestIndex(c)
         IN  <<[victim |-> c[i], stored |-> c]>> \o
             EvictionLog(Remove(c, i), mem - c[i].data.len, new_size, maxE, maxM)
    ELSE <<>>

\* put: _current_memory after "Remove old entry if exists"
MemAfterOld(c, mem, p) == IF Has(c, p) THEN mem - Lookup(c, p).data.len ELSE mem

\* ---- history bookkeeping for the in-budget premise -----------------------
Extend(f, p, d) == [q \in (DOMAIN f) \cup {p} |-> IF q = p THEN d ELSE f[q]]

RECURSIVE SumLog(_, _)
SumLog(f, S) ==
    IF S = {} THEN 0
    ELSE LET q == CHOOSE x \in S : TRUE IN f[q].len + SumLog(f, S \ {q})

\* "the number of distinct keys put so far is at most maxEntries and the sum
\* of the byte lengths of the latest value of each key is at most maxBytes"
InBudget(f) ==
    /\ Cardinality(DOMAIN f) <= max_entries
    /\ SumLog(f, DOMAIN f) <= max_memory

EmptyLog == [q \in {} |-> None]

VoidLog == [ok |-> FALSE, latest |-> EmptyLog]

LogAfterPut(p, d) ==
    IF putLog.ok /\ InBudget(Extend(putLog.latest, p, d))
    THEN [ok |-> TRUE, latest |-> Extend(putLog.latest, p, d)]
    ELSE VoidLog

\* return values
RetNone == [kind |-> "None"]
RetBytes(d) == [kind |-> "bytes", data |-> d]
RetInt(n) == [kind |-> "int", val |-> n]

\* the sequence q without the paths of S
Without(q, S) == SelectSeq(q, LAMBDA x : x \notin S)

\* ---- the objects a specification does not use ------------------------------
CacheIdle ==
    /\ max_entries = 0
    /\ max_memory = 0
    /\ cache = <<>>
    /\ current_memory = 0
    /\ lru = <<>>
    /\ putLog = VoidLog

ExistIdle ==
    /\ ttl = 0
    /\ exist = EmptyLog

ConcIdle ==
    /\ which = None
    /\ lock = None
    /\ th = <<>>

Pending == [returned |-> FALSE, value |-> <<>>]

Returned(value) == [returned |-> TRUE, value |-> value]

PureIdle ==
    /\ request = [fn |-> None]
    /\ reply = Pending

PortsIdle ==
    /\ pending_msgs = EmptyLog
    /\ default_msgs = <<>>
    /\ queued = EmptyLog
    /\ delivered = EmptyLog

\* ---- the methods -----------------------------------------------------------
CacheInit ==
    /\ max_entries \in EntryLimits
    /\ max_memory \in {mb * MiB : mb \in MemoryLimitsMb}
    /\ cache = <<>>
    /\ current_memory = 0
    /\ now = 0
    /\ op = [name |-> "init", path |-> None]
    /\ ret = RetNone
    /\ lru = <<>>
    /\ putLog = [ok |-> TRUE, latest |-> EmptyLog]
    /\ ExistIdle
    /\ ConcIdle
    /\ PureIdle
    /\ PortsIdle

Tick ==
    /\ now < MaxTime
    /\ now' = now + 1
    /\ UNCHANGED <<cacheVars, existVars, concVars, pureVars, portVars, op, ret>>

\* What a call does to (_cache, _current_memory) and what it returns, the
\* clock reading t.
get_result(c, mem, p, t) ==
    IF ~Has(c, p)
    THEN [cache |-> c, mem |-> mem, ret |-> RetNone]
    ELSE [cache |-> Store(c, p, Lookup(c, p).data, t), mem |-> mem,
          ret |-> RetBytes(Lookup(c, p).data)]

put_result(c, mem, p, d, t, maxE, maxM) ==
    LET ev == _evict_if_needed(c, MemAfterOld(c, mem, p), d.len, maxE, maxM)
    IN  [cache |-> Store(ev.cache, p, d, t), mem |-> ev.mem + d.len, ret |-> RetNone]

invalidate_result(c, mem, p) ==
    IF Has(c, p)
    THEN [cache |-> Remove(c, IndexOf(c, p)), mem |-> mem - Lookup(c, p).data.len,
          ret |-> RetNone]
    ELSE [cache |-> c, mem |-> mem, ret |-> RetNone]

get(p) ==
    LET r == get_result(cache, current_memory, p, now)
    IN  /\ op' = [name |-> "get", path |-> p]
        /\ ret' = r.ret
        /\ cache' = r.cache
        /\ lru' = IF Has(cache, p) THEN Append(Without(lru, {p}), p) ELSE lru
        /\ UNCHANGED <<max_entries, max_memory, current_memory, now, putLog, outsideCache>>

put(p, d) ==
    LET r == put_result(cache, current_memory, p, d, now, max_entries, max_memory)
    IN  /\ op' = [name |-> "put", path |-> p]
        /\ cache' = r.cache
        /\ current_memory' = r.mem
        /\ current_memory' >= -(MaxDriftMiB * MiB)
        /\ ret' = r.ret
        /\ lru' = Append(SelectSeq(lru, LAMBDA x : Has(r.cache, x) /\ x # p), p)
        /\ putLog' = LogAfterPut(p, d)
        /\ UNCHANGED <<max_entries, max_memory, now, outsideCache>>

invalidate(p) ==
    /\ op' = [name |-> "invalidate", path |-> p]
    /\ cache' = invalidate_result(cache, current_memory, p).cache
    /\ current_memory' = invalidate_result(cache, current_memory, p).mem
    /\ lru' = Without(lru, {p})
    /\ ret' = RetNone
    /\ putLog' = VoidLog
    /\ UNCHANGED <<max_entries, max_memory, now, outsideCache>>

clear ==
    /\ op' = [name |-> "clear", path |-> None]
    /\ cache' = <<>>
    /\ current_memory' = 0
    /\ lru' = <<>>
    /\ ret' = RetNone
    /\ putLog' = VoidLog
    /\ UNCHANGED <<max_entries, max_memory, now, outsideCache>>

size ==
    /\ op' = [name |-> "size", path |-> None]
    /\ ret' = RetInt(Len(cache))
    /\ UNCHANGED <<max_entries, max_memory, cache, current_memory, now, lru, putLog, outsideCache>>

memory_usage ==
    /\ op' = [name |-> "memory_usage", path |-> None]
    /\ ret' = RetInt(current_memory)
    /\ UNCHANGED <<max_entries, max_memory, cache, current_memory, now, lru, putLog, outsideCache>>

CacheNext ==
    \/ Tick
    \/ \E p \in Paths : get(p)
    \/ \E p \in Paths, d \in Datas : put(p, d)
    \/ \E p \in Paths : invalidate(p)
    \/ clear
    \/ size
    \/ memory_usage

SpecCache == CacheInit /\ [][CacheNext]_vars

(***************************************************************************)
(* IconExistenceCache                                                      *)
(***************************************************************************)
RetBool(b) == [kind |-> "bool", val |-> b]

\* faulty variants of Expired: the boundary taken as expired; expiry one second late
ExpiredAtBoundary(timestamp) == now - timestamp >= ttl

ExpiredLate(timestamp) == now - timestamp > ttl + 1

\* time.time() - timestamp > self._ttl
Expired(timestamp) == now - timestamp > ttl

\* the dict f without the key p
Drop(f, p) == [q \in (DOMAIN f) \ {p} |-> f[q]]

ExistInit ==
    /\ ttl \in Ttls
    /\ exist = EmptyLog
    /\ now = 0
    /\ op = [name |-> "init", path |-> None]
    /\ ret = RetNone
    /\ CacheIdle
    /\ ConcIdle
    /\ PureIdle
    /\ PortsIdle

exist_get(p) ==
    /\ op' = [name |-> "exist_get", path |-> p]
    /\ IF p \notin DOMAIN exist
       THEN ret' = RetNone /\ exist' = exist
       ELSE IF Expired(exist[p].timestamp)
            THEN ret' = RetNone /\ exist' = Drop(exist, p)
            ELSE ret' = RetBool(exist[p].has_icon) /\ exist' = exist
    /\ UNCHANGED <<ttl, now, outsideExist>>

exist_put(p, has_icon) ==
    /\ op' = [name |-> "exist_put", path |-> p]
    /\ exist' = Extend(exist, p, [has_icon |-> has_icon, timestamp |-> now])
    /\ ret' = RetNone
    /\ UNCHANGED <<ttl, now, outsideExist>>

exist_invalidate(p) ==
    /\ op' = [name |-> "exist_invalidate", path |-> p]
    /\ exist' = Drop(exist, p)
    /\ ret' = RetNone
    /\ UNCHANGED <<ttl, now, outsideExist>>

exist_clear ==
    /\ op' = [name |-> "exist_clear", path |-> None]
    /\ exist' = EmptyLog
    /\ ret' = RetNone
    /\ UNCHANGED <<ttl, now, outsideExist>>

ExistNext ==
    \/ Tick
    \/ \E p \in ExistPaths : exist_get(p)
    \/ \E p \in ExistPaths, b \in BOOLEAN : exist_put(p, b)
    \/ \E p \in ExistPaths : exist_invalidate(p)
    \/ exist_clear

SpecExist == ExistInit /\ [][ExistNext]_vars

(***************************************************************************)
(* Threads sharing one cache instance.  Every method body runs inside      *)
(* "with self._lock:"; a thread that has called a method waits until the   *)
(* lock is free, then runs the body one statement at a time and releases   *)
(* the lock on return.                                                     *)
(***************************************************************************)
Threads == {"t1", "t2"}
ConcPaths == {"/a.info", "/b.info"}
ConcDatas == {[len |-> 0, id |-> 0], [len |-> MiB, id |-> 0]}

IconCacheCalls ==
    {[name |-> "get", path |-> p] : p \in ConcPaths} \cup
    {[name |-> "put", path |-> p, data |-> d] : p \in ConcPaths, d \in ConcDatas} \cup
    {[name |-> "invalidate", path |-> p] : p \in ConcPaths} \cup
    {[name |-> "clear"], [name |-> "size"], [name |-> "memory_usage"]}

ExistenceCalls ==
    {[name |-> "exist_get", path |-> p] : p \in ConcPaths} \cup
    {[name |-> "exist_put", path |-> p, has_icon |-> b] : p \in ConcPaths, b \in BOOLEAN} \cup
    {[name |-> "exist_invalidate", path |-> p] : p \in ConcPaths} \cup
    {[name |-> "exist_clear"]}

CallsOf(w) == IF w = "IconCache" THEN IconCacheCalls ELSE ExistenceCalls

\* faulty variant of LockFree: the body is entered without waiting for the lock
LockIgnored == TRUE

\* threading.Lock: the lock can be taken
LockFree == lock = None

IdleThread == [pc |-> "idle"]

ConcInit ==
    /\ which \in {"IconCache", "IconExistenceCache"}
    /\ lock = None
    /\ th = [t \in Threads |-> IdleThread]
    /\ max_entries = 2
    /\ max_memory = MiB
    /\ cache = <<>>
    /\ current_memory = 0
    /\ lru = <<>>
    /\ putLog = VoidLog
    /\ ttl = 1
    /\ exist = EmptyLog
    /\ now = 0
    /\ op = [name |-> "init", path |-> None]
    /\ ret = RetNone
    /\ PureIdle
    /\ PortsIdle

conc_frame ==
    <<max_entries, max_memory, lru, putLog, ttl, which, now, op, ret, pureVars, portVars>>

\* the thread calls a method and waits for the lock
Call(t, c) ==
    /\ th[t].pc = "idle"
    /\ c \in CallsOf(which)
    /\ c.name = "put" =>
          put_result(cache, current_memory, c.path, c.data, now,
                     max_entries, max_memory).mem >= -(MaxDriftMiB * MiB)
    /\ th' = [th EXCEPT ![t] = [pc |-> "wait", call |-> c]]
    /\ UNCHANGED <<cache, current_memory, exist, lock, conc_frame>>

\* with self._lock: (entry)
Acquire(t) ==
    /\ th[t].pc = "wait"
    /\ LockFree
    /\ lock' = t
    /\ th' = [th EXCEPT ![t] =
                [pc |-> th[t].call.name, call |-> th[t].call,
                 snap |-> [cache |-> cache, mem |-> current_memory, exist |-> exist],
                 stamp |-> 0, ret |-> RetNone]]
    /\ UNCHANGED <<cache, current_memory, exist, conc_frame>>

\* with self._lock: (exit), and the return
Release(t) ==
    /\ th[t].pc = "return"
    /\ lock' = IF lock = t THEN None ELSE lock
    /\ th' = [th EXCEPT ![t] = IdleThread]
    /\ UNCHANGED <<cache, current_memory, exist, conc_frame>>

At(t, pc) == th[t].pc = pc

Goto(t, pc) == th' = [th EXCEPT ![t].pc = pc]

Return(t, v) == th' = [th EXCEPT ![t].pc = "return", ![t].ret = v]

\* ---- IconCache.get ---------------------------------------------------------
\* entry = self._cache.get(path); if entry is None: return None
get_lookup(t) ==
    /\ At(t, "get")
    /\ IF Has(cache, th[t].call.path)
       THEN Goto(t, "get_stamp")
       ELSE Return(t, RetNone)
    /\ UNCHANGED <<cache, current_memory, exist, lock, conc_frame>>

\* self._cache[path] = (icns_data, time.time()); return icns_data
get_stamp(t) ==
    /\ At(t, "get_stamp")
    /\ cache' = Store(cache, th[t].call.path, Lookup(cache, th[t].call.path).data, now)
    /\ th' = [th EXCEPT ![t].pc = "return", ![t].stamp = now,
                        ![t].ret = RetBytes(Lookup(cache, th[t].call.path).data)]
    /\ UNCHANGED <<current_memory, exist, lock, conc_frame>>

\* ---- IconCache.put ---------------------------------------------------------
\* if path in self._cache: self._current_memory -= len(old_data)
put_sub_old(t) ==
    /\ At(t, "put")
    /\ current_memory' = MemAfterOld(cache, current_memory, th[t].call.path)
    /\ Goto(t, "put_evict")
    /\ UNCHANGED <<cache, exist, lock, conc_frame>>

\* one turn of the loop of _evict_if_needed
put_evict(t) ==
    /\ At(t, "put_evict")
    /\ IF NeedsEviction(cache, current_memory, th[t].call.data.len,
                        max_entries, max_memory) /\ cache # <<>>
       THEN /\ current_memory' = current_memory - cache[OldestIndex(cache)].data.len
            /\ cache' = Remove(cache, OldestIndex(cache))
            /\ UNCHANGED th
       ELSE /\ Goto(t, "put_store")
            /\ UNCHANGED <<cache, current_memory>>
    /\ UNCHANGED <<exist, lock, conc_frame>>

\* self._cache[path] = (icns_data, time.time())
put_store(t) ==
    /\ At(t, "put_store")
    /\ cache' = Store(cache, th[t].call.path, th[t].call.data, now)
    /\ th' = [th EXCEPT ![t].pc = "put_add", ![t].stamp = now]
    /\ UNCHANGED <<current_memory, exist, lock, conc_frame>>

\* self._current_memory += len(icns_data)
put_add(t) ==
    /\ At(t, "put_add")
    /\ current_memory' = current_memory + th[t].call.data.len
    /\ Return(t, RetNone)
    /\ UNCHANGED <<cache, exist, lock, conc_frame>>

\* ---- IconCache.invalidate, clear, size, memory_usage -----------------------
invalidate_sub(t) ==
    /\ At(t, "invalidate")
    /\ IF Has(cache, th[t].call.path)
       THEN /\ current_memory' = current_memory - Lookup(cache, th[t].call.path).data.len
            /\ Goto(t, "invalidate_del")
       ELSE /\ Return(t, RetNone)
            /\ UNCHANGED current_memory
    /\ UNCHANGED <<cache, exist, lock, conc_frame>>

invalidate_del(t) ==
    /\ At(t, "invalidate_del")
    /\ cache' = Remove(cache, IndexOf(cache, th[t].call.path))
    /\ Return(t, RetNone)
    /\ UNCHANGED <<current_memory, exist, lock, conc_frame>>

clear_dict(t) ==
    /\ At(t, "clear")
    /\ cache' = <<>>
    /\ Goto(t, "clear_mem")
    /\ UNCHANGED <<current_memory, exist, lock, conc_frame>>

clear_mem(t) ==
    /\ At(t, "clear_mem")
    /\ current_memory' = 0
    /\ Return(t, RetNone)
    /\ UNCHANGED <<cache, exist, lock, conc_frame>>

size_read(t) ==
    /\ At(t, "size")
    /\ Return(t, RetInt(Len(cache)))
    /\ UNCHANGED <<cache, current_memory, exist, lock, conc_frame>>

memory_usage_read(t) ==
    /\ At(t, "memory_usage")
    /\ Return(t, RetInt(current_memory))
    /\ UNCHANGED <<cache, current_memory, exist, lock, conc_frame>>

\* ---- IconExistenceCache ----------------------------------------------------
\* entry = self._cache.get(path); if entry is None: return None
exist_get_lookup(t) ==
    /\ At(t, "exist_get")
    /\ IF th[t].call.path \in DOMAIN exist
       THEN Goto(t, "exist_get_check")
       ELSE Return(t, RetNone)
    /\ UNCHANGED <<cache, current_memory, exist, lock, conc_frame>>

\* if time.time() - timestamp > self._ttl: del ...; return None / return has_icon
exist_get_check(t) ==
    /\ At(t, "exist_get_check")
    /\ IF Expired(exist[th[t].call.path].timestamp)
       THEN /\ exist' = Drop(exist, th[t].call.path)
            /\ th' = [th EXCEPT ![t].pc = "return", ![t].stamp = now, ![t].ret = RetNone]
       ELSE /\ exist' = exist
            /\ th' = [th EXCEPT ![t].pc = "return", ![t].stamp = now,
                                ![t].ret = RetBool(exist[th[t].call.path].has_icon)]
    /\ UNCHANGED <<cache, current_memory, lock, conc_frame>>

exist_put_store(t) ==
    /\ At(t, "exist_put")
    /\ exist' = Extend(exist, th[t].call.path,
                       [has_icon |-> th[t].call.has_icon, timestamp |-> now])
    /\ th' = [th EXCEPT ![t].pc = "return", ![t].stamp = now]
    /\ UNCHANGED <<cache, current_memory, lock, conc_frame>>

exist_invalidate_pop(t) ==
    /\ At(t, "exist_invalidate")
    /\ exist' = Drop(exist, th[t].call.path)
    /\ Return(t, RetNone)
    /\ UNCHANGED <<cache, current_memory, lock, conc_frame>>

exist_clear_dict(t) ==
    /\ At(t, "exist_clear")
    /\ exist' = EmptyLog
    /\ Return(t, RetNone)
    /\ UNCHANGED <<cache, current_memory, lock, conc_frame>>

ConcNext ==
    \/ Tick
    \/ \E t \in Threads, c \in IconCacheCalls \cup ExistenceCalls : Call(t, c)
    \/ \E t \in Threads : Acquire(t)
    \/ \E t \in Threads : Release(t)
    \/ \E t \in Threads : get_lookup(t)
    \/ \E t \in Threads : get_stamp(t)
    \/ \E t \in Threads : put_sub_old(t)
    \/ \E t \in Threads : put_evict(t)
    \/ \E t \in Threads : put_store(t)
    \/ \E t \in Threads : put_add(t)
    \/ \E t \in Threads : invalidate_sub(t)
    \/ \E t \in Threads : invalidate_del(t)
    \/ \E t \in Threads : clear_dict(t)
    \/ \E t \in Threads : clear_mem(t)
    \/ \E t \in Threads : size_read(t)
    \/ \E t \in Threads : memory_usage_read(t)
    \/ \E t \in Threads : exist_get_lookup(t)
    \/ \E t \in Threads : exist_get_check(t)
    \/ \E t \in Threads : exist_put_store(t)
    \/ \E t \in Threads : exist_invalidate_pop(t)
    \/ \E t \in Threads : exist_clear_dict(t)

SpecConc == ConcInit /\ [][ConcNext]_vars

\* ---- the same call run alone -----------------------------------------------
\* What the call c does, run alone from the state s = [cache, mem, exist],
\* the clock reading t when it stamps: the state after it and its return value.
Sequential(c, s, t) ==
    CASE c.name = "get" ->
           [s EXCEPT !.cache = get_result(s.cache, s.mem, c.path, t).cache] @@
           [ret |-> get_result(s.cache, s.mem, c.path, t).ret]
      [] c.name = "put" ->
           LET r == put_result(s.cache, s.mem, c.path, c.data, t, max_entries, max_memory)
           IN  [cache |-> r.cache, mem |-> r.mem, exist |-> s.exist, ret |-> RetNone]
      [] c.name = "invalidate" ->
           LET r == invalidate_result(s.cache, s.mem, c.path)
           IN  [cache |-> r.cache, mem |-> r.mem, exist |-> s.exist, ret |-> RetNone]
      [] c.name = "clear" ->
           [cache |-> <<>>, mem |-> 0, exist |-> s.exist, ret |-> RetNone]
      [] c.name = "size" -> s @@ [ret |-> RetInt(Len(s.cache))]
      [] c.name = "memory_usage" -> s @@ [ret |-> RetInt(s.mem)]
      [] c.name = "exist_get" ->
           IF c.path \notin DOMAIN s.exist THEN s @@ [ret |-> RetNone]
           ELSE IF t - s.exist[c.path].timestamp > ttl
                THEN [s EXCEPT !.exist = Drop(s.exist, c.path)] @@ [ret |-> RetNone]
                ELSE s @@ [ret |-> RetBool(s.exist[c.path].has_icon)]
      [] c.name = "exist_put" ->
           [s EXCEPT !.exist = Extend(s.exist, c.path,
                                      [has_icon |-> c.has_icon, timestamp |-> t])]
           @@ [ret |-> RetNone]
      [] c.name = "exist_invalidate" ->
           [s EXCEPT !.exist = Drop(s.exist, c.path)] @@ [ret |-> RetNone]
      [] c.name = "exist_clear" ->
           [s EXCEPT !.exist = EmptyLog] @@ [ret |-> RetNone]

(***************************************************************************)
(* Bytes.  A bytes object is a sequence of numbers 0..255; offsets in the  *)
(* comments are Python's (from 0), indices in the sequences are from 1.    *)
(***************************************************************************)
Zeros(n) == [i \in 1..n |-> 0]

\* data[a:b]
Slice(data, a, b) ==
    LET hi == IF b > Len(data) THEN Len(data) ELSE b
    IN  IF a >= hi THEN <<>> ELSE [i \in 1..(hi - a) |-> data[a + i]]

\* struct.pack(">I", n), struct.pack(">H", n), struct.pack(">h", n)
PackU32(n) == <<(n \div 16777216) % 256, (n \div 65536) % 256, (n \div 256) % 256, n % 256>>

PackU16(n) == <<(n \div 256) % 256, n % 256>>

PackS16(n) == PackU16(IF n < 0 THEN n + 65536 ELSE n)

\* struct.pack_into(fmt, buf, off, ...): buf with the packed bytes at off
PackInto(buf, off, packed) ==
    [i \in 1..Len(buf) |->
        IF i > off /\ i <= off + Len(packed) THEN packed[i - off] ELSE buf[i]]

RECURSIVE BitOr(_, _)
BitOr(a, b) ==
    IF a = 0 THEN b
    ELSE IF b = 0 THEN a
    ELSE (IF a % 2 = 1 \/ b % 2 = 1 THEN 1 ELSE 0) + 2 * BitOr(a \div 2, b \div 2)

RECURSIVE BitAnd(_, _)
BitAnd(a, b) ==
    IF a = 0 \/ b = 0 THEN 0
    ELSE (IF a % 2 = 1 /\ b % 2 = 1 THEN 1 ELSE 0) + 2 * BitAnd(a \div 2, b \div 2)

(***************************************************************************)
(* resource_fork.py                                                        *)
(***************************************************************************)
ICNS_RESOURCE_TYPE == <<105, 99, 110, 115>>      \* b'icns'
ICNS_RESOURCE_ID == -16455
kHasCustomIcon == 1024                           \* 0x0400
kIsInvisible == 16384                            \* 0x4000

\* types_dict: the resources grouped by type, types in first-seen order
RECURSIVE TypesDict(_)
TypesDict(resources) ==
    IF resources = <<>> THEN <<>>
    ELSE LET before == TypesDict(SubSeq(resources, 1, Len(resources) - 1))
             r == resources[Len(resources)]
             ref == [id |-> r.id, data_offset |-> r.data_offset]
         IN  IF \E k \in 1..Len(before) : before[k].type = r.type
             THEN [k \in 1..Len(before) |->
                     IF before[k].type = r.type
                     THEN [before[k] EXCEPT !.refs = Append(before[k].refs, ref)]
                     ELSE before[k]]
             ELSE Append(before, [type |-> r.type, refs |-> <<ref>>])

\* the 12-byte reference entries of one type
RECURSIVE RefEntries(_)
RefEntries(refs) ==
    IF refs = <<>> THEN <<>>
    ELSE PackS16(refs[1].id) \o PackU16(65535) \o
         PackU32(BitAnd(refs[1].data_offset, 16777215)) \o PackU32(0) \o
         RefEntries(Tail(refs))

\* the type entries, given type_list_size and the running current_ref_offset
RECURSIVE TypeEntries(_, _, _)
TypeEntries(types, type_list_size, current_ref_offset) ==
    IF types = <<>> THEN <<>>
    ELSE types[1].type \o PackU16(Len(types[1].refs) - 1) \o
         PackU16(type_list_size + current_ref_offset) \o
         TypeEntries(Tail(types), type_list_size,
                     current_ref_offset + Len(types[1].refs) * 12)

RECURSIVE RefLists(_)
RefLists(types) ==
    IF types = <<>> THEN <<>> ELSE RefEntries(types[1].refs) \o RefLists(Tail(types))

\* faulty variant of MapLength: the reference list left out of the map length
MapLengthWithoutRefs(type_list, ref_lists) == 28 + Len(type_list)

\* map_length = map_header_size + len(type_list) + len(ref_lists)
MapLength(type_list, ref_lists) == 28 + Len(type_list) + Len(ref_lists)

_build_resource_map(resources, data_offset, map_offset, data_length) ==
    LET types == TypesDict(resources)
        num_types == Len(types)
        type_list_offset == 28
        type_list_size == 2 + 8 * num_types
        type_list == PackU16(num_types - 1) \o TypeEntries(types, type_list_size, 0)
        ref_lists == RefLists(types)
        name_list_offset == type_list_offset + Len(type_list) + Len(ref_lists)
        map_length == MapLength(type_list, ref_lists)
        map_header ==
            PackU32(data_offset) \o PackU32(map_offset) \o PackU32(data_length) \o
            PackU32(map_length) \o Zeros(8) \o
            PackU16(type_list_offset) \o PackU16(name_list_offset)
    IN  map_header \o type_list \o ref_lists

\* faulty variant of PartialRead: the suffix taken one byte early
PartialReadOneEarly(full_fork, position) ==
    IF position > 0
    THEN IF position >= Len(full_fork) THEN <<>>
         ELSE Slice(full_fork, position - 1, Len(full_fork))
    ELSE full_fork

\* "Handle partial reads"
PartialRead(full_fork, position) ==
    IF position > 0
    THEN IF position >= Len(full_fork) THEN <<>>
         ELSE Slice(full_fork, position, Len(full_fork))
    ELSE full_fork

build_resource_fork(icns_data, position) ==
    LET resource_data == PackU32(Len(icns_data)) \o icns_data
        data_offset == 256
        data_length == Len(resource_data)
        map_offset == data_offset + data_length
        resource_map ==
            _build_resource_map(
                <<[type |-> ICNS_RESOURCE_TYPE, id |-> ICNS_RESOURCE_ID, data_offset |-> 0]>>,
                data_offset, map_offset, data_length)
        map_length == Len(resource_map)
        packed == PackU32(data_offset) \o PackU32(map_offset) \o
                  PackU32(data_length) \o PackU32(map_length)
        header == packed \o Zeros(256 - Len(packed))
    IN  PartialRead(header \o resource_data \o resource_map, position)

\* faulty variant of _build_finder_info: the flag written to the wrong word
FinderInfoFlagMisplaced(has_custom_icon) ==
    IF has_custom_icon THEN PackInto(Zeros(32), 10, PackU16(1024)) ELSE Zeros(32)

\* resource_fork.build_finder_info
_build_finder_info(has_custom_icon) ==
    IF has_custom_icon THEN PackInto(Zeros(32), 8, PackU16(1024)) ELSE Zeros(32)

get_resource_fork_size(icns_data) == 256 + (4 + Len(icns_data)) + (28 + 2 + 8 + 12)

(***************************************************************************)
(* icon_darwin.py                                                          *)
(***************************************************************************)
\* "For invisible flag or combined flags, build manually"
ManualFinderInfo(has_custom_icon, is_invisible) ==
    LET flags1 == IF has_custom_icon THEN BitOr(0, kHasCustomIcon) ELSE 0
        flags == IF is_invisible THEN BitOr(flags1, kIsInvisible) ELSE flags1
    IN  PackInto(Zeros(32), 8, PackU16(flags))

\* faulty variant of build_finder_info: the invisible flag dropped when both are set
FinderInfoDelegatesTooOften(has_custom_icon, is_invisible) ==
    IF has_custom_icon
    THEN _build_finder_info(TRUE)
    ELSE ManualFinderInfo(has_custom_icon, is_invisible)

\* icon_darwin.build_finder_info
build_finder_info(has_custom_icon, is_invisible) ==
    IF has_custom_icon /\ ~is_invisible
    THEN _build_finder_info(TRUE)
    ELSE ManualFinderInfo(has_custom_icon, is_invisible)

\* ---- the builders called on bounded inputs ---------------------------------
MaxContainerLen == 2     \* short containers are 0..MaxContainerLen bytes long
MaxBeyond == 2           \* read positions run to MaxBeyond past the blob's end

ContainerBytes == {0, 105, 255}

RECURSIVE ByteStrings(_, _)
ByteStrings(alphabet, n) ==
    IF n = 0 THEN {<<>>}
    ELSE LET shorter == ByteStrings(alphabet, n - 1)
         IN  shorter \cup
             {Append(b, x) : b \in {c \in shorter : Len(c) = n - 1}, x \in alphabet}

\* the short containers, and one whose length needs two bytes
Containers == ByteStrings(ContainerBytes, MaxContainerLen) \cup {[i \in 1..300 |-> 65]}

ForkRequests ==
    {[fn |-> "build_resource_fork", icns_data |-> c, position |-> n] :
        c \in Containers, n \in 0..(256 + 4 + 300 + 50 + MaxBeyond)}

\* ---- DarwinIconHandler: a path is the sequence of its code points ---------
ICON_FILE == <<73, 99, 111, 110, 13>>                          \* "Icon\r"

DotInfo == <<46, 105, 110, 102, 111>>                          \* ".info"

Lower(path) ==
    [i \in 1..Len(path) |-> IF 65 <= path[i] /\ path[i] <= 90 THEN path[i] + 32 ELSE path[i]]

EndsWith(path, suffix) ==
    Len(path) >= Len(suffix) /\ SubSeq(path, Len(path) - Len(suffix) + 1, Len(path)) = suffix

is_icon_file(path) == EndsWith(path, <<47>> \o ICON_FILE) \/ path = ICON_FILE

handler_is_icon_file(icons_enabled, path) == icons_enabled /\ is_icon_file(path)

is_info_file(path) == EndsWith(Lower(path), DotInfo)

get_icon_xattr_names == <<"com.apple.FinderInfo", "com.apple.ResourceFork">>

get_hidden_xattr_names == <<"com.apple.FinderInfo">>

get_listxattr_for_path(path, has_icon) ==
    IF is_info_file(path) THEN get_hidden_xattr_names
    ELSE IF has_icon THEN get_icon_xattr_names
    ELSE <<>>

\* icns_data is <<>> for None and for b"": "and icns_data" takes neither
get_xattr_value(icons_enabled, path, name, icns_data, has_icon, position) ==
    IF is_info_file(path)
    THEN IF name = "com.apple.FinderInfo"
         THEN RetBytes(build_finder_info(FALSE, TRUE))
         ELSE RetNone
    ELSE IF handler_is_icon_file(icons_enabled, path) \/ has_icon
    THEN IF name = "com.apple.ResourceFork" /\ icns_data # <<>>
         THEN RetBytes(build_resource_fork(icns_data, position))
         ELSE IF name = "com.apple.FinderInfo"
         THEN RetBytes(build_finder_info(TRUE, FALSE))
         ELSE RetNone
    ELSE RetNone

\* "/a", "/a.info", "/A.Info", ".info", "/info", "/d/Icon\r", "Icon\r", "/Icon"
XattrPaths ==
    {<<47, 97>>, <<47, 97>> \o DotInfo, <<47, 65, 46, 73, 110, 102, 111>>, DotInfo,
     <<47, 105, 110, 102, 111>>, <<47, 100, 47>> \o ICON_FILE, ICON_FILE,
     <<47, 73, 99, 111, 110>>}

XattrNames == {"com.apple.FinderInfo", "com.apple.ResourceFork", "user.other"}

XattrRequests ==
    {[fn |-> "get_listxattr_for_path", icons_enabled |-> e, path |-> path, has_icon |-> h] :
        e \in BOOLEAN, path \in XattrPaths, h \in BOOLEAN}
    \cup
    {[fn |-> "get_xattr_value", icons_enabled |-> e, path |-> path, name |-> name,
      icns_data |-> c, has_icon |-> h, position |-> n] :
        e \in BOOLEAN, path \in XattrPaths, name \in XattrNames,
        c \in {<<>>, <<105>>, <<105, 0, 255>>}, h \in BOOLEAN, n \in {0, 16, 400}}

DarwinRequests ==
    {r \in ForkRequests : r.position <= get_resource_fork_size(r.icns_data) + MaxBeyond}
    \cup
    {[fn |-> "build_finder_info", has_custom_icon |-> h, is_invisible |-> i] :
        h \in BOOLEAN, i \in BOOLEAN}
    \cup XattrRequests

DarwinInit ==
    /\ request \in DarwinRequests
    /\ reply = Pending
    /\ CacheIdle
    /\ ExistIdle
    /\ ConcIdle
    /\ PortsIdle
    /\ now = 0
    /\ op = [name |-> "init", path |-> None]
    /\ ret = RetNone

outsidePure == <<cacheVars, existVars, concVars, portVars, now, op, ret>>

BuildResourceFork ==
    /\ request.fn = "build_resource_fork"
    /\ ~reply.returned
    /\ reply' = Returned(build_resource_fork(request.icns_data, request.position))
    /\ UNCHANGED <<request, outsidePure>>

BuildFinderInfo ==
    /\ request.fn = "build_finder_info"
    /\ ~reply.returned
    /\ reply' = Returned(build_finder_info(request.has_custom_icon, request.is_invisible))
    /\ UNCHANGED <<request, outsidePure>>

GetListxattrForPath ==
    /\ request.fn = "get_listxattr_for_path"
    /\ ~reply.returned
    /\ reply' = Returned(get_listxattr_for_path(request.path, request.has_icon))
    /\ UNCHANGED <<request, outsidePure>>

GetXattrValue ==
    /\ request.fn = "get_xattr_value"
    /\ ~reply.returned
    /\ reply' = Returned(get_xattr_value(request.icons_enabled, request.path, request.name,
                                         request.icns_data, request.has_icon,
                                         request.position))
    /\ UNCHANGED <<request, outsidePure>>

DarwinNext ==
    \/ BuildResourceFork
    \/ BuildFinderInfo
    \/ GetListxattrForPath
    \/ GetXattrValue

SpecDarwin == DarwinInit /\ [][DarwinNext]_vars

(***************************************************************************)
(* icon_parser.py.  An image is [ok, raised, width, height, rgba]; None is *)
(* NoImage, and an exception raised inside a decoder travels up as Raised  *)
(* to the try/except that catches it.                                      *)
(***************************************************************************)
WB_DISKMAGIC == 58128                            \* 0xE310

WB13_PALETTE ==
    << <<0, 85, 170>>, <<255, 255, 255>>, <<0, 0, 34>>, <<255, 136, 0>>,
       <<102, 102, 102>>, <<238, 238, 238>>, <<221, 119, 68>>, <<255, 238, 17>> >>

WB20_PALETTE ==
    << <<170, 170, 170>>, <<0, 0, 0>>, <<255, 255, 255>>, <<102, 136, 187>>,
       <<238, 68, 68>>, <<85, 221, 84>>, <<0, 68, 221>>, <<238, 153, 0>> >>

PALETTE_16 ==
    WB20_PALETTE \o
    << <<0, 0, 0>>, <<255, 0, 0>>, <<0, 255, 0>>, <<255, 255, 0>>,
       <<0, 0, 255>>, <<255, 0, 255>>, <<0, 255, 255>>, <<255, 255, 255>> >>

WORKBENCH_PALETTE_4 == SubSeq(WB13_PALETTE, 1, 4)

MAGICWB_PALETTE_8 == WB20_PALETTE

TagFORM == <<70, 79, 82, 77>>
TagICON == <<73, 67, 79, 78>>
TagFACE == <<70, 65, 67, 69>>
TagIMAG == <<73, 77, 65, 71>>
TagARGB == <<65, 82, 71, 66>>

NoImage == [ok |-> FALSE, raised |-> FALSE]

Raised == [ok |-> FALSE, raised |-> TRUE]

Image(width, height, rgba) ==
    [ok |-> TRUE, raised |-> FALSE, width |-> width, height |-> height, rgba |-> rgba]

Min(a, b) == IF a < b THEN a ELSE b

\* struct.unpack(">H" / ">h" / ">I", data[off:off + n])[0]
UnpackU16(data, off) == data[off + 1] * 256 + data[off + 2]

UnpackS16(data, off) ==
    LET u == UnpackU16(data, off) IN IF u >= 32768 THEN u - 65536 ELSE u

UnpackU32(data, off) ==
    data[off + 1] * 16777216 + data[off + 2] * 65536 + data[off + 3] * 256 + data[off + 4]

\* data.find(pattern, start)
Find(data, pattern, start) ==
    LET hits == {i \in start..(Len(data) - Len(pattern)) :
                    \A k \in 1..Len(pattern) : data[i + k] = pattern[k]}
    IN  IF hits = {} THEN -1 ELSE CHOOSE i \in hits : \A j \in hits : i <= j

\* the r, g, b of palette entry idx, black past the palette's end
PaletteColor(palette, idx) ==
    IF idx < Len(palette) THEN palette[idx + 1] ELSE <<0, 0, 0>>

\* The loop state of _unpack_rle_8bit: the read index i and the result
\* faulty variant of Rle8Loop: the control byte 128 is a no-op, as in PackBits
RECURSIVE Rle8LoopPackBits(_, _, _, _)
Rle8LoopPackBits(data, expected_size, i, result) ==
    IF ~(i < Len(data) /\ Len(result) < expected_size) THEN result
    ELSE IF i + 2 > Len(data) THEN result
    ELSE LET n == data[i + 1] IN
         IF n < 128
         THEN Rle8LoopPackBits(data, expected_size, i + 1 + (n + 1),
                               result \o Slice(data, i + 1, i + 1 + (n + 1)))
         ELSE IF n = 128
         THEN Rle8LoopPackBits(data, expected_size, i + 1, result)
         ELSE Rle8LoopPackBits(data, expected_size, i + 2,
                               result \o [k \in 1..((256 - n) + 1) |-> data[i + 2]])

RECURSIVE Rle8Loop(_, _, _, _)
Rle8Loop(data, expected_size, i, result) ==
    IF ~(i < Len(data) /\ Len(result) < expected_size) THEN result
    ELSE IF i + 2 > Len(data) THEN result
    ELSE LET n == data[i + 1] IN
         IF n < 128
         THEN Rle8Loop(data, expected_size, i + 1 + (n + 1),
                       result \o Slice(data, i + 1, i + 1 + (n + 1)))
         ELSE Rle8Loop(data, expected_size, i + 2,
                       result \o [k \in 1..((256 - n) + 1) |-> data[i + 2]])

_unpack_rle_8bit(data, expected_size) ==
    Slice(Rle8Loop(data, expected_size, 0, <<>>), 0, expected_size)

(***************************************************************************)
(* _unpack_rle_bitpacked.  The stream state is [bit_buffer, bits_in_buffer,*)
(* data_pos, result, value, raised]; value is what read_bits returned, -1  *)
(* when the data ran out.  Python never clears the bits it has handed out  *)
(* and never reads them again: here they are dropped, so that bit_buffer   *)
(* stays below 2^bits_in_buffer.                                           *)
(***************************************************************************)
RECURSIVE read_bits(_, _, _)
read_bits(data, s, num_bits) ==
    IF s.bits_in_buffer < num_bits
    THEN IF s.data_pos >= Len(data)
         THEN [s EXCEPT !.value = -1]
         ELSE read_bits(data,
                        [s EXCEPT !.bit_buffer = s.bit_buffer * 256 + data[s.data_pos + 1],
                                  !.bits_in_buffer = s.bits_in_buffer + 8,
                                  !.data_pos = s.data_pos + 1],
                        num_bits)
    ELSE [s EXCEPT !.value = (s.bit_buffer \div (2 ^ (s.bits_in_buffer - num_bits)))
                                % (2 ^ num_bits),
                   !.bit_buffer = s.bit_buffer % (2 ^ (s.bits_in_buffer - num_bits)),
                   !.bits_in_buffer = s.bits_in_buffer - num_bits]

\* result.append(pixel), count times while there is room; bytearray.append
\* raises ValueError for a value above 255
AppendPixel(r, count, expected_pixels) ==
    IF r.value > 255 THEN [r EXCEPT !.raised = TRUE]
    ELSE [r EXCEPT !.result =
             r.result \o [k \in 1..Min(count, expected_pixels - Len(r.result)) |-> r.value]]

\* "Literal run: copy (control + 1) pixel values"; r is the state after the
\* pixel was read
RECURSIVE LiteralRun(_, _, _, _, _)
RECURSIVE LiteralPixel(_, _, _, _, _)
LiteralPixel(data, expected_pixels, depth, r, count) ==
    IF r.value < 0 THEN r
    ELSE IF r.value > 255 THEN [r EXCEPT !.raised = TRUE]
    ELSE LiteralRun(data, expected_pixels, depth,
                    [r EXCEPT !.result = Append(r.result, r.value)], count - 1)

LiteralRun(data, expected_pixels, depth, s, count) ==
    IF count = 0 \/ Len(s.result) >= expected_pixels THEN s
    ELSE LiteralPixel(data, expected_pixels, depth, read_bits(data, s, depth), count)

\* "Repeat run: repeat next pixel value (-control + 1) times"; p is the state
\* after the pixel was read
RepeatRun(p, count, expected_pixels) ==
    IF p.value < 0 THEN p ELSE AppendPixel(p, count, expected_pixels)

\* faulty variant of Run: the control byte is not sign-extended, every run is
\* a literal run
RunUnsigned(data, expected_pixels, depth, c) ==
    IF c.value < 0 THEN c
    ELSE LiteralRun(data, expected_pixels, depth, c, c.value + 1)

\* one control byte read (c is the state after it) and its run done
Run(data, expected_pixels, depth, c) ==
    IF c.value < 0 THEN c
    ELSE IF c.value < 128
    THEN LiteralRun(data, expected_pixels, depth, c, c.value + 1)
    ELSE RepeatRun(read_bits(data, c, depth), -(c.value - 256) + 1, expected_pixels)

\* the loop goes on after a run unless the run broke out of it or raised
RECURSIVE BitpackedLoop(_, _, _, _)
RECURSIVE BitpackedNext(_, _, _, _)
BitpackedNext(data, expected_pixels, depth, after) ==
    IF after.raised \/ after.value < 0 THEN after
    ELSE BitpackedLoop(data, expected_pixels, depth, after)

BitpackedLoop(data, expected_pixels, depth, s) ==
    IF ~(Len(s.result) < expected_pixels /\ s.data_pos < Len(data)) THEN s
    ELSE BitpackedNext(data, expected_pixels, depth,
                       Run(data, expected_pixels, depth, read_bits(data, s, 8)))

\* what the decompressor hands back: the pixels, or the exception
Unpacked(s) == [raised |-> s.raised, result |-> s.result]

_unpack_rle_bitpacked(data, expected_pixels, depth) ==
    IF depth = 8
    THEN [raised |-> FALSE, result |-> _unpack_rle_8bit(data, expected_pixels)]
    ELSE Unpacked(BitpackedLoop(data, expected_pixels, depth,
                      [bit_buffer |-> 0, bits_in_buffer |-> 0, data_pos |-> 0,
                       result |-> <<>>, value |-> 0, raised |-> FALSE]))

_parse_face_chunk(data) ==
    IF Len(data) < 4 THEN [ok |-> FALSE]
    ELSE [ok |-> TRUE, width |-> data[1] + 1, height |-> data[2] + 1,
          flags |-> data[3], aspect |-> data[4]]

\* "Parse RGB palette"
ParsePalette(colormap_data, num_colors) ==
    [j \in 1..Cardinality({i \in 0..(Min(Len(colormap_data), num_colors * 3) - 1) :
                              i % 3 = 0 /\ i + 2 < Len(colormap_data)}) |->
        <<colormap_data[3 * (j - 1) + 1], colormap_data[3 * (j - 1) + 2],
          colormap_data[3 * (j - 1) + 3]>>]

\* "Use default palette based on color count"
DefaultPalette(num_colors) ==
    IF num_colors <= 4 THEN WORKBENCH_PALETTE_4
    ELSE IF num_colors <= 8 THEN MAGICWB_PALETTE_8
    ELSE PALETTE_16

\* "Read image data first": whether the image block is cut out of the chunk,
\* the block, and where the colormap then starts
ImageFits(data, image_size) == image_size > 1 /\ 10 + image_size <= Len(data)

RawImageData(data, image_size) ==
    IF ImageFits(data, image_size) THEN Slice(data, 10, 10 + image_size)
    ELSE Slice(data, 10, Len(data))

ColormapPos(data, image_size) ==
    IF ImageFits(data, image_size) THEN 10 + image_size ELSE Len(data)

\* "Read colormap data second": the palette, empty when there is none
ReadPalette(data, pos, colormap_size, colormap_compressed, num_colors) ==
    IF colormap_size > 1 /\ pos + colormap_size <= Len(data)
    THEN ParsePalette(IF colormap_compressed
                      THEN _unpack_rle_8bit(Slice(data, pos, pos + colormap_size),
                                            num_colors * 3)
                      ELSE Slice(data, pos, pos + colormap_size),
                      num_colors)
    ELSE <<>>

PaletteOrDefault(palette, num_colors) ==
    IF Len(palette) = 0 THEN DefaultPalette(num_colors) ELSE palette

\* "Decompress image data"
UnpackImage(raw_image_data, image_compressed, expected_pixels, depth) ==
    IF image_compressed
    THEN _unpack_rle_bitpacked(raw_image_data, expected_pixels, depth)
    ELSE [raised |-> FALSE, result |-> raw_image_data]

\* "Convert indexed to RGBA"
IndexedToRgba(width, height, image_data, palette, has_transparency, transparent_color) ==
    [k \in 1..(width * height * 4) |->
        IF (k - 1) % 4 = 3
        THEN IF has_transparency /\ image_data[((k - 1) \div 4) + 1] = transparent_color
             THEN 0 ELSE 255
        ELSE PaletteColor(palette, image_data[((k - 1) \div 4) + 1])[((k - 1) % 4) + 1]]

ImagPixels(width, height, unpacked, palette, has_transparency, transparent_color) ==
    IF unpacked.raised THEN Raised
    ELSE IF Len(unpacked.result) < width * height THEN NoImage
    ELSE Image(width, height,
               IndexedToRgba(width, height, unpacked.result, palette,
                             has_transparency, transparent_color))

\* data[0] transparent colour, data[1] colours - 1, data[2] flags, data[3] and
\* data[4] the compressed flags, data[5] depth, data[6:8] image size - 1,
\* data[8:10] colormap size - 1
_parse_imag_chunk(data, face_info) ==
    IF Len(data) < 10 THEN NoImage
    ELSE IF ~face_info.ok THEN NoImage
    ELSE ImagPixels(face_info.width, face_info.height,
                    UnpackImage(RawImageData(data, UnpackU16(data, 6) + 1), data[4] # 0,
                                face_info.width * face_info.height, data[6]),
                    PaletteOrDefault(
                        ReadPalette(data, ColormapPos(data, UnpackU16(data, 6) + 1),
                                    UnpackU16(data, 8) + 1, data[5] # 0, data[2] + 1),
                        data[2] + 1),
                    data[3] % 2 # 0, data[1])

\* "ARGB to RGBA conversion": a, r, g, b of each pixel stored as r, g, b, a
ArgbToRgba(pixel_data, expected_size) ==
    [k \in 1..expected_size |->
        IF (k - 1) % 4 = 3 THEN pixel_data[((k - 1) \div 4) * 4 + 1]
        ELSE pixel_data[((k - 1) \div 4) * 4 + ((k - 1) % 4) + 2]]

ArgbPixels(width, height, pixel_data) ==
    IF width = 0 \/ height = 0 THEN NoImage
    ELSE IF Len(pixel_data) < width * height * 4 THEN NoImage
    ELSE Image(width, height, ArgbToRgba(pixel_data, width * height * 4))

_parse_argb_chunk(data) ==
    IF Len(data) < 8 THEN NoImage
    ELSE ArgbPixels(UnpackU16(data, 0), UnpackU16(data, 2), Slice(data, 4, Len(data)))

\* the chunk at pos: its size, its data, and where the next chunk starts
ChunkSize(data, pos) == UnpackU32(data, pos + 4)

ChunkData(data, pos) == Slice(data, pos + 8, pos + 8 + ChunkSize(data, pos))

NextChunk(data, pos) ==
    pos + 8 + ChunkSize(data, pos) + (IF ChunkSize(data, pos) % 2 = 1 THEN 1 ELSE 0)

\* The chunk loop of _parse_iff_icon: returns [raised, images]
RECURSIVE ChunkLoop(_, _, _, _, _)
RECURSIVE AfterImage(_, _, _, _, _, _)
RECURSIVE ChunkAt(_, _, _, _, _, _, _)
\* "if img: images.append(img)"; an exception leaves the loop
AfterImage(data, form_size, next, face_info, images, img) ==
    IF img.raised THEN [raised |-> TRUE, images |-> images]
    ELSE ChunkLoop(data, form_size, next, face_info,
                   IF img.ok THEN Append(images, img) ELSE images)

ChunkAt(data, form_size, face_info, images, chunk_id, chunk_data, next) ==
    IF chunk_id = TagFACE
    THEN ChunkLoop(data, form_size, next, _parse_face_chunk(chunk_data), images)
    ELSE IF chunk_id = TagIMAG
    THEN AfterImage(data, form_size, next, face_info, images,
                    _parse_imag_chunk(chunk_data, face_info))
    ELSE IF chunk_id = TagARGB
    THEN AfterImage(data, form_size, next, face_info, images,
                    _parse_argb_chunk(chunk_data))
    ELSE ChunkLoop(data, form_size, next, face_info, images)

ChunkLoop(data, form_size, pos, face_info, images) ==
    IF ~(pos < Min(Len(data), form_size + 8)) \/ pos + 8 > Len(data)
    THEN [raised |-> FALSE, images |-> images]
    ELSE ChunkAt(data, form_size, face_info, images, Slice(data, pos, pos + 4),
                 ChunkData(data, pos), NextChunk(data, pos))

\* A parsed icon: what parse and the three variants return
NoIcon == [ok |-> FALSE, raised |-> FALSE]

Icon(img, format, aspect_ratio) ==
    [ok |-> TRUE, raised |-> FALSE, width |-> img.width, height |-> img.height,
     rgba |-> img.rgba, format |-> format, aspect_ratio |-> aspect_ratio]

\* "Use first image (normal state)"
FirstImage(r) ==
    IF r.raised THEN Raised
    ELSE IF r.images = <<>> THEN NoIcon
    ELSE Icon(r.images[1], "glowicons", 1)

_parse_iff_icon(data) ==
    IF Len(data) < 12 THEN NoIcon
    ELSE FirstImage(ChunkLoop(data, UnpackU32(data, 4), 12, [ok |-> FALSE], <<>>))

\* faulty variant of FormAt: the scan gives up at the first FORM that is not
\* followed by ICON
FormAtStopsAtDecoy(data, form_pos) ==
    IF form_pos = -1 THEN -1
    ELSE IF Len(data) < form_pos + 12 THEN -1
    ELSE IF Slice(data, form_pos + 8, form_pos + 12) = TagICON THEN form_pos
    ELSE -1

\* the scan of _try_glowicons: the position of the first FORM that is
\* followed by ICON, or -1
RECURSIVE FindFormIcon(_, _)
RECURSIVE FormAt(_, _)
FormAt(data, form_pos) ==
    IF form_pos = -1 THEN -1
    ELSE IF Len(data) < form_pos + 12 THEN -1
    ELSE IF Slice(data, form_pos + 8, form_pos + 12) = TagICON THEN form_pos
    ELSE FindFormIcon(data, form_pos + 1)

FindFormIcon(data, search_pos) == FormAt(data, Find(data, TagFORM, search_pos))

\* faulty variant of Caught: the exception leaves _try_glowicons
Uncaught(r) == r

\* try: return ...  except Exception: return None
Caught(r) == IF r.raised THEN NoIcon ELSE r

GlowIconsAt(data, form_pos) ==
    IF form_pos = -1 THEN NoIcon
    ELSE Caught(_parse_iff_icon(Slice(data, form_pos, Len(data))))

_try_glowicons(data) == GlowIconsAt(data, FindFormIcon(data, 0))

\* ---- strings: a str is the sequence of its code points ---------------------
Whitespace == {9, 10, 11, 12, 13, 28, 29, 30, 31, 32, 133, 160}

NewIconsMarker ==
    <<42, 42, 42, 32, 68, 79, 78, 39, 84, 32, 69, 68, 73, 84, 32, 84, 72, 69, 32,
      70, 79, 76, 76, 79, 87, 73, 78, 71, 32, 76, 73, 78, 69, 83, 33, 33, 32, 42, 42, 42>>

PrefixIM1 == <<73, 77, 49, 61>>
PrefixIM2 == <<73, 77, 50, 61>>
PrefixStars == <<42, 42, 42>>

StartsWith(s, prefix) ==
    Len(s) >= Len(prefix) /\ \A k \in 1..Len(prefix) : s[k] = prefix[k]

\* s.strip()
Strip(s) ==
    LET keep == {i \in 1..Len(s) : s[i] \notin Whitespace}
    IN  IF keep = {} THEN <<>>
        ELSE SubSeq(s, CHOOSE i \in keep : \A j \in keep : i <= j,
                       CHOOSE i \in keep : \A j \in keep : i >= j)

\* s.rstrip('\x00')
RStripNul(s) ==
    LET keep == {i \in 1..Len(s) : s[i] # 0}
    IN  IF keep = {} THEN <<>>
        ELSE SubSeq(s, 1, CHOOSE i \in keep : \A j \in keep : i >= j)

RECURSIVE Join(_)
Join(lines) == IF lines = <<>> THEN <<>> ELSE lines[1] \o Join(Tail(lines))

\* the planar image at pos: its size in bytes, 0 when a dimension is not positive
ImageDataSize(data, pos) ==
    IF UnpackS16(data, pos + 4) <= 0 \/ UnpackS16(data, pos + 6) <= 0
       \/ UnpackS16(data, pos + 8) <= 0
    THEN 0
    ELSE UnpackS16(data, pos + 8) * UnpackS16(data, pos + 6)
         * ((UnpackS16(data, pos + 4) + 15) \div 16) * 2

\* the entry loop of _parse_tooltypes; str is the entry's string data
RECURSIVE ToolTypesLoop(_, _, _, _)
RECURSIVE ToolTypeAt(_, _, _, _, _)
ToolTypeAt(data, pos, remaining, tooltypes, str_len) ==
    IF str_len > 0 /\ pos + str_len <= Len(data)
    THEN ToolTypesLoop(data, pos + str_len, remaining,
                       IF RStripNul(Slice(data, pos, pos + str_len)) # <<>>
                       THEN Append(tooltypes, RStripNul(Slice(data, pos, pos + str_len)))
                       ELSE tooltypes)
    ELSE IF str_len = 0
    THEN ToolTypesLoop(data, pos, remaining, tooltypes)
    ELSE tooltypes

ToolTypesLoop(data, pos, remaining, tooltypes) ==
    IF ~(remaining > 0 /\ pos + 4 <= Len(data)) THEN tooltypes
    ELSE ToolTypeAt(data, pos + 4, remaining - 4, tooltypes, UnpackU32(data, pos))

\* "Now we should be at ToolTypes"
ToolTypesAt(data, pos) ==
    IF UnpackU32(data, 54) = 0 THEN <<>>
    ELSE IF pos + 4 > Len(data) THEN <<>>
    ELSE ToolTypesLoop(data, pos + 4, UnpackU32(data, pos) - 4, <<>>)

\* "Skip the null-terminated DefaultTool string"
AfterDefaultTool(data, null_pos) ==
    IF null_pos = -1 THEN <<>> ELSE ToolTypesAt(data, null_pos + 1)

\* "Now we should be at DefaultTool string"
AfterImages(data, pos) ==
    IF UnpackU32(data, 50) # 0
    THEN AfterDefaultTool(data, Find(data, <<0>>, pos))
    ELSE ToolTypesAt(data, pos)

\* "Check for second image"
AfterFirstImage(data, pos) ==
    AfterImages(data,
        IF BitAnd(UnpackU16(data, 16), 2) # 0 /\ pos + 20 <= Len(data)
           /\ ImageDataSize(data, pos) > 0
        THEN pos + 20 + ImageDataSize(data, pos)
        ELSE pos)

\* "Parse first image to skip past it"
FirstImageAt(data, pos) ==
    IF pos + 20 > Len(data) THEN <<>>
    ELSE IF ImageDataSize(data, pos) = 0 THEN <<>>
    ELSE AfterFirstImage(data, pos + 20 + ImageDataSize(data, pos))

_parse_tooltypes(data) ==
    IF Len(data) < 78 THEN <<>>
    ELSE FirstImageAt(data, IF UnpackU32(data, 66) # 0 THEN 78 + 56 ELSE 78)

\* "Collect IM1 lines": current is the list a continuation line goes to
RECURSIVE CollectIM1(_, _, _)
RECURSIVE CollectLine(_, _, _, _)
CollectLine(rest, current, im1_lines, tt) ==
    IF StartsWith(tt, PrefixIM1)
    THEN CollectIM1(rest, "im1", Append(im1_lines, SubSeq(tt, 5, Len(tt))))
    ELSE IF StartsWith(tt, PrefixIM2)
    THEN CollectIM1(rest, "im2", im1_lines)
    ELSE IF current = "im1" /\ ~StartsWith(tt, PrefixStars) /\ Strip(tt) # <<>>
    THEN CollectIM1(rest, current, Append(im1_lines, tt))
    ELSE CollectIM1(rest, current, im1_lines)

CollectIM1(tooltypes, current, im1_lines) ==
    IF tooltypes = <<>> THEN im1_lines
    ELSE CollectLine(Tail(tooltypes), current, im1_lines, tooltypes[1])

\* faulty variant of NewIconsValue: the second range starts at 0x4F
NewIconsValueOverlapping(c) ==
    IF 32 <= c /\ c <= 111 THEN c - 32
    ELSE IF 161 <= c /\ c <= 208 THEN c - 161 + 79
    ELSE -1

\* the value of one NewIcons character, -1 for a character outside both ranges
NewIconsValue(c) ==
    IF 32 <= c /\ c <= 111 THEN c - 32
    ELSE IF 161 <= c /\ c <= 208 THEN c - 161 + 80
    ELSE -1

\* "Decode bytes"; c is the character at i
RECURSIVE NewIconsDecode(_, _, _)
RECURSIVE DecodeChar(_, _, _, _)
DecodeChar(data, i, decoded, c) ==
    IF NewIconsValue(c) >= 0
    THEN NewIconsDecode(data, i + 1, Append(decoded, NewIconsValue(c)))
    ELSE IF 209 <= c /\ c <= 255
    THEN IF i + 1 < Len(data)
         THEN NewIconsDecode(data, i + 2,
                  decoded \o [k \in 1..(c - 208) |->
                                 IF NewIconsValue(data[i + 2]) >= 0
                                 THEN NewIconsValue(data[i + 2]) ELSE 0])
         ELSE NewIconsDecode(data, i + 2, decoded)
    ELSE NewIconsDecode(data, i + 1, decoded)

NewIconsDecode(data, i, decoded) ==
    IF ~(i < Len(data)) THEN decoded ELSE DecodeChar(data, i, decoded, data[i + 1])

\* "Scale 6-bit to 8-bit"
Scale6To8(v) == Min(255, v * 4 + ((v * 4) \div 64))

\* "Read palette (3 bytes per color: R, G, B)", from decoded[pos]
NewIconsPalette(decoded, pos, num_colors) ==
    [j \in 1..Cardinality({n \in 0..(num_colors - 1) : pos + 3 * n + 2 < Len(decoded)}) |->
        <<Scale6To8(decoded[pos + 3 * (j - 1) + 1]),
          Scale6To8(decoded[pos + 3 * (j - 1) + 2]),
          Scale6To8(decoded[pos + 3 * (j - 1) + 3])>>]

\* "Convert to RGBA": a pixel past the end of pixels has index 0
NewIconsRgba(width, height, pixels, palette, transparent) ==
    [k \in 1..(width * height * 4) |->
        IF (k - 1) % 4 = 3
        THEN IF transparent /\ (IF (k - 1) \div 4 < Len(pixels)
                                THEN pixels[((k - 1) \div 4) + 1] ELSE 0) = 0
             THEN 0 ELSE 255
        ELSE PaletteColor(palette,
                          IF (k - 1) \div 4 < Len(pixels)
                          THEN pixels[((k - 1) \div 4) + 1] ELSE 0)[((k - 1) % 4) + 1]]

NewIconsPixels(decoded, pos, palette) ==
    Image(decoded[2], decoded[3],
          NewIconsRgba(decoded[2], decoded[3],
                       Slice(decoded, pos + 3 * Len(palette), Len(decoded)),
                       palette, decoded[1] = 0))

\* decoded[1] is the width, decoded[2] the height; the palette starts at pos
NewIconsBitmap(decoded, pos, num_colors) ==
    IF decoded[2] = 0 \/ decoded[3] = 0 \/ decoded[2] > 640 \/ decoded[3] > 512
    THEN NoImage
    ELSE NewIconsPixels(decoded, pos,
                        NewIconsPalette(decoded, pos, IF num_colors = 0 THEN 256 ELSE num_colors))

\* "Determine color count"; decoded[4] of a 4-value header is an IndexError,
\* caught by the try
NewIconsHeader(decoded) ==
    IF Len(decoded) < 4 THEN NoImage
    ELSE IF decoded[4] # 0 THEN NewIconsBitmap(decoded, 4, decoded[4])
    ELSE IF Len(decoded) < 5 THEN NoImage
    ELSE NewIconsBitmap(decoded, 5, decoded[5])

_decode_newicons_image(data) ==
    IF Len(data) < 5 THEN NoImage
    ELSE NewIconsHeader(NewIconsDecode(data, 0, <<>>))

\* "if result: result['format'] = 'newicons'"
AsNewIcon(result) == IF result.ok THEN Icon(result, "newicons", 1) ELSE NoIcon

\* "Decode IM1"
DecodeIM1(im1_lines) ==
    IF im1_lines = <<>> THEN NoIcon
    ELSE AsNewIcon(_decode_newicons_image(Join(im1_lines)))

NewIconsIn(tooltypes) ==
    IF tooltypes = <<>> THEN NoIcon
    ELSE IF /\ ~\E k \in 1..Len(tooltypes) : Strip(tooltypes[k]) = NewIconsMarker
            /\ ~\E k \in 1..Len(tooltypes) : StartsWith(tooltypes[k], PrefixIM1)
    THEN NoIcon
    ELSE DecodeIM1(CollectIM1(tooltypes, None, <<>>))

_try_newicons(data) == NewIconsIn(_parse_tooltypes(data))

\* bit k of x is set
BitSet(x, k) == (x \div (2 ^ k)) % 2 = 1

\* faulty variant of PlaneOn: plane_on_off is used for every plane
PlaneOnConstant(data, offset, bit_offset, plane_pick, plane_on_off, plane) ==
    BitSet(plane_on_off, plane)

\* whether the pixel has the bit of this plane: from the plane's data if the
\* plane is in plane_pick, else from plane_on_off
PlaneOn(data, offset, bit_offset, plane_pick, plane_on_off, plane) ==
    IF BitSet(plane_pick, plane)
    THEN offset < Len(data) /\ BitSet(data[offset + 1], bit_offset)
    ELSE BitSet(plane_on_off, plane)

\* the pixel made of the planes in the set planes
RECURSIVE PixelPlanes(_, _, _, _, _, _, _)
PixelPlanes(data, plane_size, byte_offset, bit_offset, plane_pick, plane_on_off, planes) ==
    IF planes = {} THEN 0
    ELSE LET plane == CHOOSE p \in planes : \A q \in planes : p <= q
         IN  (IF PlaneOn(data, plane * plane_size + byte_offset, bit_offset, plane_pick,
                         plane_on_off, plane)
              THEN 2 ^ plane ELSE 0) +
             PixelPlanes(data, plane_size, byte_offset, bit_offset, plane_pick,
                         plane_on_off, planes \ {plane})

RowBytes(width) == ((width + 15) \div 16) * 2

_planar_to_chunky(data, width, height, depth, plane_pick, plane_on_off) ==
    [i \in 1..(width * height) |->
        PixelPlanes(data, RowBytes(width) * height,
                    (((i - 1) % width) \div 8) + (((i - 1) \div width) * RowBytes(width)),
                    7 - (((i - 1) % width) % 8),
                    plane_pick, plane_on_off, 0..(depth - 1))]

\* "if pixels[idx] == 0 and not is_edge[idx]": mark the pixel and queue it
Mark(pixels, width, s, x, y) ==
    IF pixels[y * width + x + 1] = 0 /\ ~s.is_edge[y * width + x + 1]
    THEN [is_edge |-> [s.is_edge EXCEPT ![y * width + x + 1] = TRUE],
          queue |-> Append(s.queue, <<x, y>>)]
    ELSE s

RECURSIVE MarkAll(_, _, _, _)
MarkAll(pixels, width, s, cells) ==
    IF cells = <<>> THEN s
    ELSE MarkAll(pixels, width, Mark(pixels, width, s, cells[1][1], cells[1][2]),
                 Tail(cells))

\* the border cells in the order the two seeding loops visit them
BorderCells(width, height) ==
    [k \in 1..(2 * width) |->
        IF k % 2 = 1 THEN <<(k - 1) \div 2, 0>> ELSE <<(k - 1) \div 2, height - 1>>]
    \o
    [k \in 1..(2 * height) |->
        IF k % 2 = 1 THEN <<0, (k - 1) \div 2>> ELSE <<width - 1, (k - 1) \div 2>>]

\* faulty variant of Neighbours: the diagonal neighbours count too
NeighboursWithDiagonals(width, height, x, y) ==
    SelectSeq(<< <<x - 1, y>>, <<x + 1, y>>, <<x, y - 1>>, <<x, y + 1>>,
                 <<x - 1, y - 1>>, <<x + 1, y - 1>>, <<x - 1, y + 1>>, <<x + 1, y + 1>> >>,
              LAMBDA c : 0 <= c[1] /\ c[1] < width /\ 0 <= c[2] /\ c[2] < height)

\* the neighbours of (x, y) inside the image, in the order of the code
Neighbours(width, height, x, y) ==
    SelectSeq(<< <<x - 1, y>>, <<x + 1, y>>, <<x, y - 1>>, <<x, y + 1>> >>,
              LAMBDA c : 0 <= c[1] /\ c[1] < width /\ 0 <= c[2] /\ c[2] < height)

\* "Flood fill to find all connected color 0 pixels"
RECURSIVE FloodFill(_, _, _, _)
FloodFill(pixels, width, height, s) ==
    IF s.queue = <<>> THEN s.is_edge
    ELSE FloodFill(pixels, width, height,
                   MarkAll(pixels, width, [s EXCEPT !.queue = Tail(s.queue)],
                           Neighbours(width, height, s.queue[1][1], s.queue[1][2])))

_find_edge_background(pixels, width, height) ==
    FloodFill(pixels, width, height,
              MarkAll(pixels, width,
                      [is_edge |-> [i \in 1..Len(pixels) |-> FALSE], queue |-> <<>>],
                      BorderCells(width, height)))

\* "Choose palette based on Workbench version"
TraditionalPalette(img_depth, is_wb2) ==
    IF img_depth > 3 THEN PALETTE_16
    ELSE IF is_wb2 THEN WB20_PALETTE
    ELSE WB13_PALETTE

\* "Convert to RGBA"
TraditionalRgba(pixels, palette, edge_transparent) ==
    [k \in 1..(Len(pixels) * 4) |->
        IF (k - 1) % 4 = 3
        THEN IF pixels[((k - 1) \div 4) + 1] = 0 /\ edge_transparent[((k - 1) \div 4) + 1]
             THEN 0 ELSE 255
        ELSE PaletteColor(palette, pixels[((k - 1) \div 4) + 1])[((k - 1) % 4) + 1]]

TraditionalBitmap(img_width, img_height, pixels, palette) ==
    Icon(Image(img_width, img_height,
               TraditionalRgba(pixels, palette,
                               _find_edge_background(pixels, img_width, img_height))),
         "traditional", 2)

\* the image whose data starts at pos
TraditionalImage(data, pos, img_width, img_height, img_depth, plane_pick, plane_on_off) ==
    IF img_width <= 0 \/ img_height <= 0 \/ img_depth <= 0 THEN NoIcon
    ELSE IF img_width > 640 \/ img_height > 512 \/ img_depth > 8 THEN NoIcon
    ELSE IF pos + img_depth * RowBytes(img_width) * img_height > Len(data) THEN NoIcon
    ELSE TraditionalBitmap(img_width, img_height,
             _planar_to_chunky(
                 Slice(data, pos, pos + img_depth * RowBytes(img_width) * img_height),
                 img_width, img_height, img_depth, plane_pick, plane_on_off),
             TraditionalPalette(img_depth, UnpackU32(data, 44) # 0))

\* "First image header at pos"
TraditionalAt(data, pos) ==
    IF pos + 20 > Len(data) THEN NoIcon
    ELSE TraditionalImage(data, pos + 20, UnpackS16(data, pos + 4), UnpackS16(data, pos + 6),
                          UnpackS16(data, pos + 8), data[pos + 14 + 1], data[pos + 15 + 1])

_try_traditional(data) ==
    IF Len(data) < 78 THEN NoIcon
    ELSE IF UnpackS16(data, 12) <= 0 \/ UnpackS16(data, 14) <= 0
            \/ UnpackS16(data, 12) > 640 \/ UnpackS16(data, 14) > 512
    THEN NoIcon
    ELSE TraditionalAt(data, IF UnpackU32(data, 66) # 0 THEN 78 + 56 ELSE 78)

\* faulty variant of OrElse: a later variant that gave a result wins
OrElseLater(result, later) == IF later.ok THEN later ELSE result

\* "Try formats in order of quality (best first)": the first that gave a result
OrElse(result, later) == IF result.ok THEN result ELSE later

\* IconParser.parse
parse(data) ==
    IF Len(data) < 78 THEN NoIcon
    ELSE IF UnpackU16(data, 0) # WB_DISKMAGIC THEN NoIcon
    ELSE OrElse(_try_glowicons(data),
                OrElse(_try_newicons(data), _try_traditional(data)))

(***************************************************************************)
(* Icon files to parse.  A file is a 78-byte DiskObject, optional          *)
(* DrawerData, the planar image, an optional DefaultTool string, optional  *)
(* ToolTypes and an optional IFF FORM; each part comes from a small set    *)
(* that holds well-formed and malformed cases.                             *)
(***************************************************************************)
DiskObject(magic, gd_width, gd_height, user_data, default_tool, tool_types, drawer) ==
    PackU16(magic) \o PackU16(1) \o Zeros(8) \o
    PackS16(gd_width) \o PackS16(gd_height) \o PackU16(0) \o Zeros(26) \o
    PackU32(user_data) \o <<IF drawer # 0 THEN 2 ELSE 3, 0>> \o
    PackU32(default_tool) \o PackU32(tool_types) \o Zeros(8) \o
    PackU32(drawer) \o Zeros(8)

PlanarImage(width, height, depth, plane_pick, plane_on_off, planes) ==
    Zeros(4) \o PackS16(width) \o PackS16(height) \o PackS16(depth) \o
    PackU32(1) \o <<plane_pick, plane_on_off>> \o Zeros(4) \o planes

RECURSIVE ToolTypeEntries(_)
ToolTypeEntries(strings) ==
    IF strings = <<>> THEN <<>>
    ELSE PackU32(Len(strings[1]) + 1) \o strings[1] \o <<0>> \o
         ToolTypeEntries(Tail(strings))

ToolTypesBlock(strings) ==
    IF strings = <<>> THEN <<>>
    ELSE PackU32((Len(strings) + 1) * 4) \o ToolTypeEntries(strings)

Chunk(id, body) ==
    id \o PackU32(Len(body)) \o body \o (IF Len(body) % 2 = 1 THEN <<0>> ELSE <<>>)

RECURSIVE Chunks(_)
Chunks(list) ==
    IF list = <<>> THEN <<>> ELSE Chunk(list[1][1], list[1][2]) \o Chunks(Tail(list))

Form(type, list) ==
    LET body == type \o Chunks(list) IN TagFORM \o PackU32(Len(body)) \o body

FaceChunk(width, height) == <<width - 1, height - 1, 0, 17, 0, 0>>

ImagChunk(transparent_color, num_colors, flags, image_compressed, colormap_compressed,
          depth, image, colormap) ==
    <<transparent_color, num_colors - 1, flags, image_compressed, colormap_compressed,
      depth>> \o
    PackU16(IF image = <<>> THEN 0 ELSE Len(image) - 1) \o
    PackU16(IF colormap = <<>> THEN 0 ELSE Len(colormap) - 1) \o
    image \o colormap

ArgbChunk(width, height, pixels) ==
    PackU16(width) \o PackU16(height) \o [k \in 1..(pixels * 4) |-> (k * 37) % 256]

\* true-colour images: the sizes named, each with all of its pixels
ArgbSizes == {<<1, 1>>, <<2, 3>>, <<640, 1>>, <<641, 1>>, <<1, 512>>, <<1, 513>>, <<0, 1>>}

Colormap4 == <<0, 0, 0, 255, 0, 0, 0, 255, 0, 0, 0, 255>>

\* 4 colours as RLE: three literal bytes, then 9 times the byte 17
Colormap4Packed == <<2, 10, 20, 30, 248, 17>>

Face2x2 == <<TagFACE, FaceChunk(2, 2)>>

\* a bit-packed stream of depth 9 whose first pixel value is 511
RaisingImag == <<TagIMAG, ImagChunk(0, 4, 0, 1, 0, 9, <<0, 255, 128>>, <<>>)>>

GlowTails ==
    {<<>>}
    \cup {Form(TagICON, << <<TagARGB, ArgbChunk(s[1], s[2], s[1] * s[2])>> >>) : s \in ArgbSizes}
    \cup {Form(TagICON, << <<TagARGB, ArgbChunk(2, 2, 3)>> >>),
          Form(TagICON, << Face2x2,
                           <<TagIMAG, ImagChunk(0, 4, 1, 0, 0, 2, <<0, 1, 2, 3>>, Colormap4)>> >>),
          Form(TagICON, << Face2x2,
                           <<TagIMAG, ImagChunk(1, 4, 1, 1, 1, 4, <<3, 1, 35>>, Colormap4Packed)>> >>),
          Form(TagICON, << Face2x2,
                           <<TagIMAG, ImagChunk(0, 4, 0, 1, 0, 4, <<254, 16>>, <<>>)>> >>),
          Form(TagICON, << Face2x2,
                           <<TagIMAG, ImagChunk(0, 4, 0, 0, 0, 2, <<0, 1, 2>>, <<>>)>> >>),
          Form(TagICON, << Face2x2, RaisingImag >>),
          Form(TagICON, << <<TagIMAG, ImagChunk(0, 4, 1, 0, 0, 2, <<0, 1, 2, 3>>, Colormap4)>> >>),
          Form(TagICON, << <<TagARGB, ArgbChunk(1, 1, 1)>>, Face2x2, RaisingImag >>),
          Form(<<73, 76, 66, 77>>, << <<TagARGB, ArgbChunk(1, 1, 1)>> >>)
              \o Form(TagICON, << <<TagARGB, ArgbChunk(1, 2, 2)>> >>),
          TagFORM \o <<0, 0>>}

\* 5 by 5, one plane: a border of 0, a ring of 1, a centre of 0
RingPlanes == <<0, 0, 112, 0, 80, 0, 112, 0, 0, 0>>

\* [gd, image]: the gadget's size and the planar image
Traditionals ==
    {[gd |-> <<5, 5>>, image |-> PlanarImage(5, 5, 1, 1, 0, RingPlanes)],
     [gd |-> <<2, 2>>, image |-> PlanarImage(2, 2, 2, 1, 2, <<128, 0, 64, 0>>)],
     [gd |-> <<2, 2>>, image |-> PlanarImage(2, 2, 4, 15, 0, <<128, 0, 64, 0, 192, 0>>)],
     [gd |-> <<2, 2>>, image |-> PlanarImage(2, 2, 2, 3, 0, <<128, 0, 64, 0, 192, 0>>)],
     [gd |-> <<0, 5>>, image |-> PlanarImage(5, 5, 1, 1, 0, RingPlanes)],
     [gd |-> <<641, 1>>, image |-> PlanarImage(641, 1, 1, 1, 0, Zeros(82))],
     [gd |-> <<640, 1>>, image |-> PlanarImage(641, 1, 1, 1, 0, Zeros(82))],
     [gd |-> <<1, 512>>, image |-> PlanarImage(1, 513, 1, 0, 0, <<>>)],
     [gd |-> <<2, 2>>, image |-> PlanarImage(2, 2, 9, 0, 0, Zeros(36))],
     [gd |-> <<2, 2>>, image |-> PlanarImage(0, 2, 1, 1, 0, <<>>)],
     [gd |-> <<2, 2>>, image |-> <<0, 0, 0, 0, 0, 2>>]}

NewIconsChar(v) == IF v < 80 THEN v + 32 ELSE v - 80 + 161

NewIconsText(values) == [k \in 1..Len(values) |-> NewIconsChar(values[k])]

\* "FORMAT=0": a tool type that holds the container tag
ToolTypeFORMAT == <<70, 79, 82, 77, 65, 84, 61, 48>>

\* transparent, 2 by 2, 2 colours, their palette, 4 pixels
NewIcons2x2 == <<0, 2, 2, 2, 63, 0, 16, 100, 127, 1, 0, 1, 1, 0>>

ToolTypeSets ==
    {<<>>,
     <<ToolTypeFORMAT>>,
     <<NewIconsMarker, PrefixIM1 \o NewIconsText(NewIcons2x2)>>,
     <<ToolTypeFORMAT, PrefixIM1 \o NewIconsText(SubSeq(NewIcons2x2, 1, 6)),
       NewIconsText(SubSeq(NewIcons2x2, 7, 10)) \o <<211, 33>>,
       PrefixIM2 \o NewIconsText(NewIcons2x2), NewIconsText(<<5, 5>>)>>,
     <<PrefixIM1 \o NewIconsText(<<1, 0, 2, 1, 0, 0, 0, 0>>)>>,
     <<PrefixIM1 \o NewIconsText(<<1, 3, 1, 0>>)>>,
     <<NewIconsMarker, <<32, 32>>, ToolTypeFORMAT>>}

\* the DefaultTool string, when the file has one
DefaultTools == {<<>>, <<83, 89, 83, 58, 120, 0>>}

IconFile(magic, t, default_tool, tool_types, drawer, tail) ==
    DiskObject(magic, t.gd[1], t.gd[2], IF drawer THEN 0 ELSE 1,
               IF default_tool = <<>> THEN 0 ELSE 1,
               IF tool_types = <<>> THEN 0 ELSE 1,
               IF drawer THEN 1 ELSE 0)
    \o (IF drawer THEN Zeros(56) ELSE <<>>)
    \o t.image \o default_tool \o ToolTypesBlock(tool_types) \o tail

ParseInputs ==
    {IconFile(WB_DISKMAGIC, t, <<>>, tt, FALSE, tail) :
        t \in Traditionals, tt \in ToolTypeSets, tail \in GlowTails}
    \cup
    {IconFile(WB_DISKMAGIC, t, dt, tt, TRUE, <<>>) :
        t \in Traditionals, dt \in DefaultTools, tt \in ToolTypeSets}
    \cup
    {IconFile(magic, t, <<>>, <<>>, FALSE, Form(TagICON, << <<TagARGB, ArgbChunk(1, 1, 1)>> >>)) :
        magic \in {0, 58129}, t \in Traditionals}
    \cup
    {SubSeq(IconFile(WB_DISKMAGIC, t, <<>>, <<>>, FALSE, <<>>), 1, n) :
        t \in Traditionals, n \in {0, 1, 77}}

ParseInit ==
    /\ request \in {[fn |-> "parse", data |-> d] : d \in ParseInputs}
    /\ reply = Pending
    /\ CacheIdle
    /\ ExistIdle
    /\ ConcIdle
    /\ PortsIdle
    /\ now = 0
    /\ op = [name |-> "init", path |-> None]
    /\ ret = RetNone

Parse ==
    /\ request.fn = "parse"
    /\ ~reply.returned
    /\ reply' = Returned(parse(request.data))
    /\ UNCHANGED <<request, outsidePure>>

ParseNext == Parse

SpecParse == ParseInit /\ [][ParseNext]_vars

(***************************************************************************)
(* Grids of pixel indices to convert to RGBA as _try_traditional does:     *)
(* every grid of at most MaxCells pixels with the indices 0 and 1.         *)
(***************************************************************************)
MaxCells == 9

GridSizes == {s \in (1..MaxCells) \X (1..MaxCells) : s[1] * s[2] <= MaxCells}

Grids ==
    UNION {{[fn |-> "traditional_bitmap", width |-> s[1], height |-> s[2], pixels |-> p] :
                p \in [1..(s[1] * s[2]) -> {0, 1}]} : s \in GridSizes}

GridInit ==
    /\ request \in Grids
    /\ reply = Pending
    /\ CacheIdle
    /\ ExistIdle
    /\ ConcIdle
    /\ PortsIdle
    /\ now = 0
    /\ op = [name |-> "init", path |-> None]
    /\ ret = RetNone

\* "Convert to RGBA" of _try_traditional, for an image of depth 1
ConvertToRgba ==
    /\ request.fn = "traditional_bitmap"
    /\ ~reply.returned
    /\ reply' = Returned(TraditionalBitmap(request.width, request.height, request.pixels,
                                           TraditionalPalette(1, FALSE)))
    /\ UNCHANGED <<request, outsidePure>>

GridNext == ConvertToRgba

SpecGrid == GridInit /\ [][GridNext]_vars

(***************************************************************************)
(* icon_parser.py, the ICNS writer: create_icns, scale_image,              *)
(* scale_image_fit, encode_png, build_icns.  An image is the function from *)
(* 1..width*height*4 to its bytes.  zlib is not part of the repository:    *)
(* of zlib.compress and zlib.crc32 the model keeps that the result is a    *)
(* function of the input, and a short one.                                 *)
(***************************************************************************)
Max(a, b) == IF a > b THEN a ELSE b

\* "Scale RGBA image using nearest-neighbor"; int(x * (src_w / dst_w)) is
\* taken as the floor of the exact quotient
scale_image(rgba, src_w, src_h, dst_w, dst_h) ==
    [k \in 1..(dst_w * dst_h * 4) |->
        rgba[(Min(((((k - 1) \div 4) \div dst_w) * src_h) \div dst_h, src_h - 1) * src_w
              + Min(((((k - 1) \div 4) % dst_w) * src_w) \div dst_w, src_w - 1)) * 4
             + ((k - 1) % 4) + 1]]

\* "Calculate scaled dimensions", "Ensure at least 1 pixel":
\* max(1, int(src * min(dst_w / src_w, dst_h / src_h)))
ScaledSide(src, src_w, src_h, dst_w, dst_h) ==
    Max(1, Min((src * dst_w) \div src_w, (src * dst_h) \div src_h))

\* "Copy scaled image into center of result": scaled is scaled_w by scaled_h
\* and its corner goes to (offset_x, offset_y)
Centered(scaled, scaled_w, scaled_h, dst_w, dst_h, offset_x, offset_y) ==
    [k \in 1..(dst_w * dst_h * 4) |->
        IF /\ offset_x <= ((k - 1) \div 4) % dst_w
           /\ ((k - 1) \div 4) % dst_w < offset_x + scaled_w
           /\ offset_y <= ((k - 1) \div 4) \div dst_w
           /\ ((k - 1) \div 4) \div dst_w < offset_y + scaled_h
        THEN scaled[(((((k - 1) \div 4) \div dst_w) - offset_y) * scaled_w
                     + ((((k - 1) \div 4) % dst_w) - offset_x)) * 4 + ((k - 1) % 4) + 1]
        ELSE 0]

ScaledTo(rgba, src_w, src_h, dst_w, dst_h, scaled_w, scaled_h) ==
    Centered(scale_image(rgba, src_w, src_h, scaled_w, scaled_h), scaled_w, scaled_h,
             dst_w, dst_h, (dst_w - scaled_w) \div 2, (dst_h - scaled_h) \div 2)

scale_image_fit(rgba, src_w, src_h, dst_w, dst_h) ==
    ScaledTo(rgba, src_w, src_h, dst_w, dst_h,
             ScaledSide(src_w, src_w, src_h, dst_w, dst_h),
             ScaledSide(src_h, src_w, src_h, dst_w, dst_h))

PngSignature == <<137, 80, 78, 71, 13, 10, 26, 10>>      \* b'\x89PNG\r\n\x1a\n'

TagIHDR == <<73, 72, 68, 82>>

TagIDAT == <<73, 68, 65, 84>>

TagIEND == <<73, 69, 78, 68>>

RECURSIVE Sum(_)
Sum(bytes) == IF bytes = <<>> THEN 0 ELSE bytes[1] + Sum(Tail(bytes))

\* zlib.crc32(chunk) & 0xFFFFFFFF: a checksum of the chunk
Crc32(chunk) == (Sum(chunk) * 40503 + Len(chunk)) % 65536

\* zlib.compress(raw_data, 9), raw_data of n bytes: the two header bytes of
\* a zlib stream, then bytes that depend on the data, more of them or fewer
Deflated(first, middle, last) ==
    <<120, 218>> \o SelectSeq(<<first, middle, last>>, LAMBDA b : b # 0)

Compress(raw_data, n) ==
    Deflated(raw_data[2], raw_data[(n \div 2) + 1], raw_data[n]) \o PackU32(n)

write_chunk(chunk_type, data) ==
    PackU32(Len(data)) \o chunk_type \o data \o PackU32(Crc32(chunk_type \o data))

\* "Filter type: None" before the bytes of each row
RawData(rgba, width, height) ==
    [k \in 1..(height * (1 + width * 4)) |->
        IF (k - 1) % (1 + width * 4) = 0 THEN 0
        ELSE rgba[((k - 1) \div (1 + width * 4)) * width * 4 + ((k - 1) % (1 + width * 4))]]

encode_png(rgba, width, height) ==
    PngSignature
    \o write_chunk(TagIHDR, PackU32(width) \o PackU32(height) \o <<8, 6, 0, 0, 0>>)
    \o write_chunk(TagIDAT, Compress(RawData(rgba, width, height), height * (1 + width * 4)))
    \o write_chunk(TagIEND, <<>>)

IcnsMagic == <<105, 99, 110, 115>>      \* b'icns'

\* faulty variant of DataSize: the payloads without their 8-byte headers
DataSizeOfPayloads(entries) == Sum([k \in 1..Len(entries) |-> Len(entries[k][2])])

\* "sum(8 + len(data) for _, data in entries)"
DataSize(entries) == Sum([k \in 1..Len(entries) |-> 8 + Len(entries[k][2])])

RECURSIVE EntryBytes(_)
EntryBytes(entries) ==
    IF entries = <<>> THEN <<>>
    ELSE entries[1][1] \o PackU32(8 + Len(entries[1][2])) \o entries[1][2]
         \o EntryBytes(Tail(entries))

build_icns(entries) == IcnsMagic \o PackU32(8 + DataSize(entries)) \o EntryBytes(entries)

\* size_configs: each size with its type codes
size_configs ==
    << [size |-> 16,  type_codes |-> << <<105, 99, 112, 52>> >>],
       [size |-> 32,  type_codes |-> << <<105, 99, 112, 53>>, <<105, 99, 49, 49>> >>],
       [size |-> 64,  type_codes |-> << <<105, 99, 112, 54>>, <<105, 99, 49, 50>> >>],
       [size |-> 128, type_codes |-> << <<105, 99, 48, 55>> >>],
       [size |-> 256, type_codes |-> << <<105, 99, 48, 56>>, <<105, 99, 49, 51>> >>],
       [size |-> 512, type_codes |-> << <<105, 99, 48, 57>>, <<105, 99, 49, 52>> >>] >>

\* faulty variant of SkipSize: any size that needs more than 8x upscaling
SkipSizeAnyUpscale(icon_size, max_dim) == icon_size > max_dim * 8

\* "Skip 512x512 if we'd be upscaling more than 8x"
SkipSize(icon_size, max_dim) == icon_size > 256 /\ icon_size > max_dim * 8

\* "Add entry for each type code at this size"
EntriesFor(type_codes, png_data) == [k \in 1..Len(type_codes) |-> <<type_codes[k], png_data>>]

RECURSIVE SizeLoop(_, _, _, _, _)
SizeLoop(rgba, width, height, configs, entries) ==
    IF configs = <<>> THEN entries
    ELSE IF SkipSize(configs[1].size, Max(width, height))
    THEN SizeLoop(rgba, width, height, Tail(configs), entries)
    ELSE SizeLoop(rgba, width, height, Tail(configs),
                  entries \o EntriesFor(configs[1].type_codes,
                                encode_png(scale_image_fit(rgba, width, height,
                                                           configs[1].size, configs[1].size),
                                           configs[1].size, configs[1].size)))

\* aspect_ratio is 1 or 2; "Correct aspect ratio by scaling height"
create_icns(rgba, width, height, aspect_ratio) ==
    IF aspect_ratio # 1 /\ aspect_ratio > 0
    THEN build_icns(SizeLoop(scale_image(rgba, width, height, width, height * aspect_ratio),
                             width, height * aspect_ratio, size_configs, <<>>))
    ELSE build_icns(SizeLoop(rgba, width, height, size_configs, <<>>))

(***************************************************************************)
(* Bitmaps to convert and entry lists to pack.  A bitmap is given by its   *)
(* size and a seed its bytes are computed from.                            *)
(***************************************************************************)
SourceRgba(width, height, seed) ==
    [k \in 1..(width * height * 4) |-> ((k + (k \div 7)) * seed) % 256]

BitmapSizes ==
    {<<1, 1>>, <<16, 16>>, <<2, 3>>, <<63, 1>>, <<64, 1>>, <<1, 63>>, <<1, 64>>,
     <<1, 31>>, <<1, 32>>, <<63, 63>>, <<64, 64>>, <<7, 31>>, <<7, 32>>, <<640, 1>>,
     <<1, 512>>, <<640, 512>>, <<100, 37>>}

IcnsRequests ==
    {[fn |-> "create_icns", width |-> s[1], height |-> s[2], aspect_ratio |-> a,
      seed |-> d] : s \in BitmapSizes, a \in {1, 2}, d \in {0, 1, 37}}
    \cup
    {[fn |-> "build_icns", entries |-> e] :
        e \in UNION {[1..n -> {IcnsMagic, <<0, 0, 0, 0>>} \X ByteStrings(ContainerBytes, 1)] :
                        n \in 0..3}}

IcnsInit ==
    /\ request \in IcnsRequests
    /\ reply = Pending
    /\ CacheIdle
    /\ ExistIdle
    /\ ConcIdle
    /\ PortsIdle
    /\ now = 0
    /\ op = [name |-> "init", path |-> None]
    /\ ret = RetNone

CreateIcns ==
    /\ request.fn = "create_icns"
    /\ ~reply.returned
    /\ reply' = Returned(create_icns(SourceRgba(request.width, request.height, request.seed),
                                     request.width, request.height, request.aspect_ratio))
    /\ UNCHANGED <<request, outsidePure>>

BuildIcns ==
    /\ request.fn = "build_icns"
    /\ ~reply.returned
    /\ reply' = Returned(build_icns(request.entries))
    /\ UNCHANGED <<request, outsidePure>>

IcnsNext == CreateIcns \/ BuildIcns

SpecIcns == IcnsInit /\ [][IcnsNext]_vars

(***************************************************************************)
(* Streams to decompress.  A byte-RLE stream is hand-made, or the encoding *)
(* of a list of runs: a literal run is the control byte L-1 and its L      *)
(* bytes, a repeat run of n copies of v is the control byte 257-n and v.   *)
(* A bit-packed stream is the encoding of a literal run followed by a      *)
(* repeat run, its values depth bits wide, padded with 0 bits to a byte.   *)
(***************************************************************************)
MaxRuns == 2

\* the longest literal run of a bit-packed stream
MaxLiteral == 32

EncodeRun8(run) ==
    IF run.kind = "literal" THEN <<Len(run.bytes) - 1>> \o run.bytes
    ELSE <<257 - run.count, run.value>>

RunBytes(run) ==
    IF run.kind = "literal" THEN run.bytes ELSE [k \in 1..run.count |-> run.value]

RECURSIVE Encode8(_)
Encode8(runs) == IF runs = <<>> THEN <<>> ELSE EncodeRun8(runs[1]) \o Encode8(Tail(runs))

RECURSIVE Original8(_)
Original8(runs) == IF runs = <<>> THEN <<>> ELSE RunBytes(runs[1]) \o Original8(Tail(runs))

\* literal runs of 1, 2 and 128 bytes, repeat runs of 2, 3 and 129 copies
Runs8 ==
    {[kind |-> "literal", bytes |-> [k \in 1..len |-> (k * seed) % 256]] :
        len \in {1, 2, 128}, seed \in {1, 37}}
    \cup
    {[kind |-> "repeat", count |-> n, value |-> v] : n \in {2, 3, 129}, v \in {0, 255}}

RunLists8 == UNION {[1..n -> Runs8] : n \in 1..MaxRuns}

\* empty, a control byte alone, a literal run cut short, a control byte
\* after a run, a repeat run, two runs
Streams8 == {<<>>, <<5>>, <<3, 1, 2>>, <<0, 9, 200>>, <<128, 7>>, <<1, 1, 2, 254, 3>>}

Bits(value, width) == [k \in 1..width |-> (value \div (2 ^ (width - k))) % 2]

ValuesBits(values, depth) ==
    [i \in 1..(Len(values) * depth) |->
        Bits(values[((i - 1) \div depth) + 1], depth)[((i - 1) % depth) + 1]]

BitAt(bits, k) == IF k <= Len(bits) THEN bits[k] ELSE 0

BitsToBytes(bits) ==
    [j \in 1..((Len(bits) + 7) \div 8) |->
        BitAt(bits, 8 * j - 7) * 128 + BitAt(bits, 8 * j - 6) * 64
        + BitAt(bits, 8 * j - 5) * 32 + BitAt(bits, 8 * j - 4) * 16
        + BitAt(bits, 8 * j - 3) * 8 + BitAt(bits, 8 * j - 2) * 4
        + BitAt(bits, 8 * j - 1) * 2 + BitAt(bits, 8 * j)]

\* control k = Len(values) - 1 and the values, then control -m and v
EncodeBitpacked(values, m, v, depth) ==
    BitsToBytes(Bits(Len(values) - 1, 8) \o ValuesBits(values, depth)
                \o Bits(256 - m, 8) \o Bits(v, depth))

Values4(len, seed) == [j \in 1..len |-> ((j * seed) + (j \div 3)) % 16]

RleRequests ==
    {[fn |-> "_unpack_rle_8bit", data |-> Encode8(runs), expected_size |-> Len(Original8(runs)),
      encoded |-> TRUE, original |-> Original8(runs)] : runs \in RunLists8}
    \cup
    {[fn |-> "_unpack_rle_8bit", data |-> d, expected_size |-> e,
      encoded |-> FALSE, original |-> <<>>] : d \in Streams8, e \in {0, 1, 3, 5, 200}}
    \cup
    {[fn |-> "_unpack_rle_bitpacked",
      data |-> EncodeBitpacked(Values4(len, seed), m, v, 4),
      expected_pixels |-> len + m + 1, depth |-> 4,
      literal |-> len, original |-> Values4(len, seed) \o [j \in 1..(m + 1) |-> v]] :
        len \in {1, 2, 3, 4, MaxLiteral - 1, MaxLiteral}, seed \in {1, 7}, m \in {1, 2, 127, 128},
        v \in {0, 5, 15}}

RleInit ==
    /\ request \in RleRequests
    /\ reply = Pending
    /\ CacheIdle
    /\ ExistIdle
    /\ ConcIdle
    /\ PortsIdle
    /\ now = 0
    /\ op = [name |-> "init", path |-> None]
    /\ ret = RetNone

UnpackRle8bit ==
    /\ request.fn = "_unpack_rle_8bit"
    /\ ~reply.returned
    /\ reply' = Returned(_unpack_rle_8bit(request.data, request.expected_size))
    /\ UNCHANGED <<request, outsidePure>>

UnpackRleBitpacked ==
    /\ request.fn = "_unpack_rle_bitpacked"
    /\ ~reply.returned
    /\ reply' = Returned(_unpack_rle_bitpacked(request.data, request.expected_pixels,
                                               request.depth))
    /\ UNCHANGED <<request, outsidePure>>

RleNext == UnpackRle8bit \/ UnpackRleBitpacked

SpecRle == RleInit /\ [][RleNext]_vars

(***************************************************************************)
(* Parts of the parser called on their own.  Icon files cut at every       *)
(* length, for _parse_tooltypes: two tool types, with and without a        *)
(* DefaultTool string.                                                     *)
(***************************************************************************)
ToolTypeFiles ==
    {IconFile(WB_DISKMAGIC,
              [gd |-> <<2, 2>>,
               image |-> PlanarImage(2, 2, 2, 3, 0, <<128, 0, 64, 0, 0, 0, 0, 0>>)],
              dt, << <<65>>, <<66, 67>> >>, FALSE, <<>>) : dt \in DefaultTools}

ToolTypesRequests ==
    UNION {{[fn |-> "_parse_tooltypes", data |-> SubSeq(file, 1, n), whole |-> n = Len(file)] :
               n \in 0..Len(file)} : file \in ToolTypeFiles}

\* IMAG chunks for a 2 by 2 face.  The image: 4 pixels, 3 pixels, a stream
\* of 4 literal values, a stream of 3 copies, a stream that ends after its
\* control byte.  The colormap: none, 4 colours, 2 colours, 4 colours as RLE,
\* 2 colours as RLE.
ImagImages ==
    {[compressed |-> 0, bytes |-> <<0, 1, 2, 3>>], [compressed |-> 0, bytes |-> <<0, 1, 2>>],
     [compressed |-> 1, bytes |-> <<3, 1, 35>>], [compressed |-> 1, bytes |-> <<254, 16>>],
     [compressed |-> 1, bytes |-> <<3>>]}

ImagColormaps ==
    {[compressed |-> 0, bytes |-> <<>>], [compressed |-> 0, bytes |-> Colormap4],
     [compressed |-> 0, bytes |-> SubSeq(Colormap4, 1, 6)],
     [compressed |-> 1, bytes |-> Colormap4Packed],
     [compressed |-> 1, bytes |-> <<2, 10, 20, 30, 254, 17>>]}

\* cut is the number of bytes missing at the end of the chunk
ImagRequests ==
    {[fn |-> "_parse_imag_chunk",
      data |-> SubSeq(ImagChunk(0, n, flags, i.compressed, c.compressed, depth,
                                i.bytes, c.bytes),
                      1, 10 + Len(i.bytes) + Len(c.bytes) - cut),
      face_info |-> _parse_face_chunk(FaceChunk(2, 2))] :
        i \in ImagImages, c \in ImagColormaps, n \in {2, 4, 8, 16}, depth \in {2, 4},
        flags \in {0, 1}, cut \in {0, 1}}

\* chunk streams of up to three chunks: face descriptors, indexed images that
\* decode, fall short or fail, true-colour images and a chunk of odd length
Face1x2 == <<TagFACE, FaceChunk(1, 2)>>

StreamChunks ==
    {Face2x2, Face1x2, RaisingImag,
     <<TagIMAG, ImagChunk(0, 4, 0, 0, 0, 2, <<0, 1, 2, 3>>, Colormap4)>>,
     <<TagIMAG, ImagChunk(0, 4, 0, 0, 0, 2, <<3>>, <<>>)>>,
     <<TagARGB, ArgbChunk(1, 1, 1)>>,
     <<TagARGB, ArgbChunk(2, 1, 2)>>,
     <<<<74, 85, 78, 75>>, <<1, 2, 3>>>>}

ChunkLists ==
    {<<a>> : a \in StreamChunks}
    \cup {<<a, b>> : a \in StreamChunks, b \in StreamChunks}
    \cup {<<a, b, c>> : a \in StreamChunks, b \in StreamChunks, c \in StreamChunks}

\* the form as declared, and the form declaring less than its last chunk
ShortForm(form, less) ==
    SubSeq(form, 1, 4) \o PackU32(UnpackU32(form, 4) - less) \o SubSeq(form, 9, Len(form))

IffRequests ==
    {[fn |-> "_parse_iff_icon", chunks |-> l,
      data |-> ShortForm(Form(TagICON, l), less)] : l \in ChunkLists, less \in {0, 8}}

\* planar images of depth * height * 2 * ceil(width / 16) bytes: widths on
\* both sides of a byte and of a word, masks with bits at and above the depth
PlanarBytes(n, seed) == [k \in 1..n |-> (k * seed + (seed \div 3)) % 256]

PlanarRequests ==
    {[fn |-> "_planar_to_chunky",
      data |-> PlanarBytes(depth * height * 2 * ((width + 15) \div 16), seed),
      width |-> width, height |-> height, depth |-> depth,
      plane_pick |-> plane_pick, plane_on_off |-> plane_on_off] :
        width \in {1, 7, 8, 9, 16, 17}, height \in {1, 2}, depth \in {1, 2, 3, 8},
        plane_pick \in {0, 1, 2, 5, 251, 255}, plane_on_off \in {0, 2, 4, 255},
        seed \in {0, 37, 101}}

\* NewIcons texts: a header (not transparent, width, height, colours), a
\* palette and pixels.  The first family carries every value character as the
\* width, the second every value character as a palette channel, the third
\* run markers in front of a value character.
ValueChars == (32..111) \cup (161..208)

NewIconsRequests ==
    {[fn |-> "_decode_newicons_image", family |-> "width",
      data |-> <<33, c, 33, 34, 32, 32, 32, 95, 95, 95, 33, 32, 33>>] : c \in ValueChars}
    \cup {[fn |-> "_decode_newicons_image", family |-> "channel",
           data |-> <<33, 33, 33, 33, c, 95, 32, 32>>] : c \in ValueChars}
    \cup {[fn |-> "_decode_newicons_image", family |-> "run",
           data |-> <<33, 80, 33, 34, 32, 32, 32, 95, 95, 95, m, x, 65 - x>>] :
              m \in {209, 210, 224, 254, 255}, x \in {32, 33}}
    \cup {[fn |-> "_decode_newicons_image", family |-> "run",
           data |-> <<m, 33, 34, 32, 32, 32, 95, 95, 95, 33>>] : m \in {211}}

PartsRequests ==
    ToolTypesRequests \cup ImagRequests \cup IffRequests \cup PlanarRequests
        \cup NewIconsRequests

PartsInit ==
    /\ request \in PartsRequests
    /\ reply = Pending
    /\ CacheIdle
    /\ ExistIdle
    /\ ConcIdle
    /\ PortsIdle
    /\ now = 0
    /\ op = [name |-> "init", path |-> None]
    /\ ret = RetNone

ParseToolTypes ==
    /\ request.fn = "_parse_tooltypes"
    /\ ~reply.returned
    /\ reply' = Returned(_parse_tooltypes(request.data))
    /\ UNCHANGED <<request, outsidePure>>

ParseImagChunk ==
    /\ request.fn = "_parse_imag_chunk"
    /\ ~reply.returned
    /\ reply' = Returned(_parse_imag_chunk(request.data, request.face_info))
    /\ UNCHANGED <<request, outsidePure>>

ParseIffIcon ==
    /\ request.fn = "_parse_iff_icon"
    /\ ~reply.returned
    /\ reply' = Returned(_parse_iff_icon(request.data))
    /\ UNCHANGED <<request, outsidePure>>

PlanarToChunky ==
    /\ request.fn = "_planar_to_chunky"
    /\ ~reply.returned
    /\ reply' = Returned(_planar_to_chunky(request.data, request.width, request.height,
                                           request.depth, request.plane_pick,
                                           request.plane_on_off))
    /\ UNCHANGED <<request, outsidePure>>

DecodeNewIconsImage ==
    /\ request.fn = "_decode_newicons_image"
    /\ ~reply.returned
    /\ reply' = Returned(_decode_newicons_image(request.data))
    /\ UNCHANGED <<request, outsidePure>>

PartsNext ==
    \/ ParseToolTypes
    \/ ParseImagChunk
    \/ ParseIffIcon
    \/ PlanarToChunky
    \/ DecodeNewIconsImage

SpecParts == PartsInit /\ [][PartsNext]_vars

(***************************************************************************)
(* pending_ports.py: the registry of messages waiting for a port           *)
(***************************************************************************)
MaxQueued == 4

PortAddrs == {4096, 8192}
MsgAddrs == {10, 20}

\* the history key of the default queue
Default == 0

AllQueued == Len(queued[Default]) + Len(queued[4096]) + Len(queued[8192])

\* pending_msgs.get(port_addr)
Pending_get(port_addr) ==
    IF port_addr \in DOMAIN pending_msgs THEN pending_msgs[port_addr] ELSE <<>>

\* faulty variant of Popped: lst.pop() takes the newest message
PoppedLast(lst) == lst[Len(lst)]

\* lst.pop(0): what it returns and what it leaves
Popped(lst) == lst[1]

AfterPop(lst) == Tail(lst)

PortsInit ==
    /\ pending_msgs = EmptyLog
    /\ default_msgs = <<>>
    /\ queued = [q \in PortAddrs \cup {Default} |-> <<>>]
    /\ delivered = [q \in PortAddrs \cup {Default} |-> <<>>]
    /\ now = 0
    /\ op = [name |-> "init", port |-> None]
    /\ ret = RetNone
    /\ CacheIdle
    /\ ExistIdle
    /\ ConcIdle
    /\ PureIdle

outsidePorts == <<cacheVars, existVars, concVars, pureVars, now>>

queue_msg(port_addr, msg_addr) ==
    /\ AllQueued < MaxQueued
    /\ pending_msgs' = Extend(pending_msgs, port_addr, Append(Pending_get(port_addr), msg_addr))
    /\ queued' = [queued EXCEPT ![port_addr] = Append(@, msg_addr)]
    /\ op' = [name |-> "queue_msg", port |-> port_addr]
    /\ ret' = RetNone
    /\ UNCHANGED <<default_msgs, delivered, outsidePorts>>

pop_msg(port_addr) ==
    /\ op' = [name |-> "pop_msg", port |-> port_addr]
    /\ IF Pending_get(port_addr) = <<>>
       THEN /\ ret' = RetNone
            /\ UNCHANGED <<pending_msgs, delivered>>
       ELSE /\ ret' = RetInt(Popped(pending_msgs[port_addr]))
            /\ pending_msgs' = [pending_msgs EXCEPT ![port_addr] = AfterPop(@)]
            /\ delivered' = [delivered EXCEPT ![port_addr] =
                                Append(@, Popped(pending_msgs[port_addr]))]
    /\ UNCHANGED <<default_msgs, queued, outsidePorts>>

queue_default(msg_addr) ==
    /\ AllQueued < MaxQueued
    /\ default_msgs' = Append(default_msgs, msg_addr)
    /\ queued' = [queued EXCEPT ![Default] = Append(@, msg_addr)]
    /\ op' = [name |-> "queue_default", port |-> Default]
    /\ ret' = RetNone
    /\ UNCHANGED <<pending_msgs, delivered, outsidePorts>>

pop_default ==
    /\ op' = [name |-> "pop_default", port |-> Default]
    /\ IF default_msgs = <<>>
       THEN /\ ret' = RetNone
            /\ UNCHANGED <<default_msgs, delivered>>
       ELSE /\ ret' = RetInt(Popped(default_msgs))
            /\ default_msgs' = AfterPop(default_msgs)
            /\ delivered' = [delivered EXCEPT ![Default] = Append(@, Popped(default_msgs))]
    /\ UNCHANGED <<pending_msgs, queued, outsidePorts>>

PortsNext ==
    \/ \E port_addr \in PortAddrs, msg_addr \in MsgAddrs : queue_msg(port_addr, msg_addr)
    \/ \E port_addr \in PortAddrs : pop_msg(port_addr)
    \/ \E msg_addr \in MsgAddrs : queue_default(msg_addr)
    \/ pop_default

SpecPorts == PortsInit /\ [][PortsNext]_vars

(***************************************************************************)
(* C1.  While every call is a put or a get and, after every put, the keys  *)
(* put so far number at most max_entries and their latest values sum to    *)
(* at most max_memory bytes, nothing is evicted: every key put is stored   *)
(* with the bytes of its latest put, and get returns exactly those bytes.  *)
(***************************************************************************)
C1_InBudgetNothingEvicted ==
    putLog.ok =>
        /\ \A p \in DOMAIN putLog.latest :
              Has(cache, p) /\ Lookup(cache, p).data = putLog.latest[p]
        /\ (op.name = "get" /\ op.path \in DOMAIN putLog.latest)
              => ret = RetBytes(putLog.latest[op.path])

(***************************************************************************)
(* C2.  After every put returns (max_entries >= 1) the cache holds at most *)
(* max_entries entries and at most max_memory bytes, unless it holds       *)
(* nothing but the entry just put, that entry being larger than            *)
(* max_memory.                                                             *)
(***************************************************************************)
OnlyOversizedEntry ==
    /\ Len(cache) = 1
    /\ cache[1].path = op.path
    /\ cache[1].data.len > max_memory

C2_BudgetsHoldAfterPut ==
    (op.name = "put" /\ max_entries >= 1) =>
        /\ Len(cache) <= max_entries
        /\ SumLen(cache) <= max_memory \/ OnlyOversizedEntry

(***************************************************************************)
(* C3.  Eviction is least-recently-accessed: every entry a put evicts has  *)
(* the smallest access time of the entries stored at that moment and is    *)
(* the one put or read by get longest ago; an entry is evicted only while  *)
(* a budget would be exceeded by the insertion (eviction stops as soon as  *)
(* both budgets hold; the replaced key's own old entry aside); and get on  *)
(* a key that is not stored returns None.                                  *)
(***************************************************************************)
\* the dict c without the entry of path p
Except(c, p) == SelectSeq(c, LAMBDA e : e.path # p)

\* inserting (p, d) into the dict c breaks a budget
OverBudget(c, p, d) ==
    \/ Cardinality(Keys(c) \cup {p}) > max_entries
    \/ SumLen(Except(c, p)) + d.len > max_memory

\* the least recently accessed of the paths stored in c
LeastRecent(c) == Head(SelectSeq(lru, LAMBDA x : x \in Keys(c)))

PutEvictsLRU(p) ==
    LET d == Lookup(cache', p).data
        log == EvictionLog(cache, MemAfterOld(cache, current_memory, p),
                           d.len, max_entries, max_memory)
    IN  \A k \in 1..Len(log) :
            /\ \A j \in 1..Len(log[k].stored) :
                   log[k].victim.time <= log[k].stored[j].time
            /\ log[k].victim.path = LeastRecent(log[k].stored)
            /\ log[k].victim.path # p => OverBudget(log[k].stored, p, d)

C3_EvictionIsLRU ==
    /\ [][\A p \in Paths : (\E d \in Datas : put(p, d)) => PutEvictsLRU(p)]_vars
    /\ [](op.name = "get" => (ret = RetNone <=> ~Has(cache, op.path)))

(***************************************************************************)
(* C4.  IconExistenceCache.get never returns a stale value: when the       *)
(* clock minus the time of the key's latest put exceeds ttl, get returns   *)
(* None and removes the entry; a removed key comes back only by a put of   *)
(* that key, and get on a key that is not stored returns None.             *)
(***************************************************************************)
C4_NoStaleValue ==
    /\ [][\A p \in ExistPaths :
            /\ (exist_get(p) /\ p \in DOMAIN exist /\ now - exist[p].timestamp > ttl)
                   => (ret' = RetNone /\ p \notin DOMAIN exist')
            /\ (p \notin DOMAIN exist /\ p \in DOMAIN exist')
                   => \E b \in BOOLEAN : exist_put(p, b)]_vars
    /\ [](op.name = "exist_get" => (ret = RetNone <=> op.path \notin DOMAIN exist))

C4_Witness ==
    /\ op.name = "exist_get"
    /\ ret = RetNone
    /\ op.path \notin DOMAIN exist
    /\ \E q \in DOMAIN exist : now - exist[q].timestamp > ttl

(***************************************************************************)
(* C5.  IconExistenceCache.get returns the boolean of the latest put of    *)
(* the key whenever the clock minus the time of that put is at most ttl    *)
(* (equality included) and the key was not invalidated or cleared since;   *)
(* True and False come back as stored, both different from None.           *)
(***************************************************************************)
C5_FreshValueReturned ==
    [][\A p \in ExistPaths :
          /\ (exist_get(p) /\ p \in DOMAIN exist /\ now - exist[p].timestamp <= ttl)
                 => (ret' = RetBool(exist[p].has_icon) /\ ret' # RetNone /\ exist' = exist)
          /\ \A b \in BOOLEAN : exist_put(p, b)
                 => exist'[p] = [has_icon |-> b, timestamp |-> now]
          /\ (p \in DOMAIN exist /\ p \in DOMAIN exist' /\ exist'[p] # exist[p])
                 => \E b \in BOOLEAN : exist_put(p, b)
          /\ (p \in DOMAIN exist /\ p \notin DOMAIN exist')
                 => \/ exist_invalidate(p)
                    \/ exist_clear
                    \/ exist_get(p) /\ now - exist[p].timestamp > ttl]_vars

C5_Witness ==
    /\ op.name = "exist_get"
    /\ ret = RetBool(FALSE)
    /\ ttl > 0
    /\ now - exist[op.path].timestamp = ttl

(***************************************************************************)
(* C6.  Every read and write of a cache instance is serialized behind its  *)
(* lock: at most one thread is inside a method body; when a call returns,  *)
(* the instance's state and the return value are those of the same call    *)
(* run alone from the state the thread found when it took the lock; and    *)
(* no thread reads the cache while another is in the middle of a put.      *)
(***************************************************************************)
InBody(t) == th[t].pc \notin {"idle", "wait"}

MidPut(t) == th[t].pc \in {"put_evict", "put_store", "put_add"}

Reading(t) ==
    th[t].pc \in {"get", "get_stamp", "size", "memory_usage", "return"}

C6_Serialized ==
    \A t \in DOMAIN th :
        /\ \A u \in DOMAIN th : (u # t /\ InBody(t)) => ~InBody(u)
        /\ \A u \in DOMAIN th : (u # t /\ Reading(t)) => ~MidPut(u)
        /\ th[t].pc = "return" =>
              LET r == Sequential(th[t].call, th[t].snap, th[t].stamp)
              IN  /\ cache = r.cache
                  /\ current_memory = r.mem
                  /\ exist = r.exist
                  /\ th[t].ret = r.ret

\* a put that evicted is about to return while the other thread waits to read
C6_Witness ==
    \E t \in DOMAIN th, u \in DOMAIN th :
        /\ th[t].pc = "return"
        /\ th[t].call.name = "put"
        /\ \E p \in Keys(th[t].snap.cache) : ~Has(cache, p)
        /\ th[u].pc = "wait"
        /\ th[u].call.name = "get"

\* ---- reading a blob back ---------------------------------------------------
U32At(b, off) == b[off + 1] * 16777216 + b[off + 2] * 65536 + b[off + 3] * 256 + b[off + 4]

U16At(b, off) == b[off + 1] * 256 + b[off + 2]

(***************************************************************************)
(* C7.  The full blob build_resource_fork(c, 0) starts with a 256-byte     *)
(* header: data_offset = 256, map_offset = 256 + 4 + len(c), data_length   *)
(* = 4 + len(c), map_length = the length of the map section, bytes 16-255  *)
(* zero; data_offset + data_length = map_offset; map_offset + map_length   *)
(* = the blob's length; the map's first 16 bytes repeat the header's.      *)
(***************************************************************************)
C7_HeaderLayout ==
    (request.fn = "build_resource_fork" /\ request.position = 0 /\ reply.returned) =>
        LET c == request.icns_data
            map_offset == U32At(reply.value, 4)
        IN  /\ Len(reply.value) >= 256
            /\ U32At(reply.value, 0) = 256
            /\ map_offset = 256 + 4 + Len(c)
            /\ U32At(reply.value, 8) = 4 + Len(c)
            /\ U32At(reply.value, 12) = Len(reply.value) - (256 + 4 + Len(c))
            /\ \A i \in 17..256 : reply.value[i] = 0
            /\ U32At(reply.value, 0) + U32At(reply.value, 8) = map_offset
            /\ map_offset + U32At(reply.value, 12) = Len(reply.value)
            /\ Len(reply.value) >= map_offset + 16
            /\ \A i \in 1..16 : reply.value[map_offset + i] = reply.value[i]

C7_Witness ==
    /\ reply.returned
    /\ request.fn = "build_resource_fork"
    /\ request.position = 0
    /\ Len(request.icns_data) = 300
    /\ U32At(reply.value, 4) = 560

(***************************************************************************)
(* C8.  build_resource_fork(c, N) is the full blob without its first N     *)
(* bytes for 0 <= N <= len(full blob), and empty for every larger N.       *)
(***************************************************************************)
C8_PartialReadIsSuffix ==
    (request.fn = "build_resource_fork" /\ reply.returned) =>
        LET full == build_resource_fork(request.icns_data, 0)
            N == request.position
        IN  /\ N <= Len(full) =>
                /\ Len(reply.value) = Len(full) - N
                /\ \A i \in 1..Len(reply.value) : reply.value[i] = full[N + i]
            /\ N > Len(full) => reply.value = <<>>

C8_Witness ==
    /\ reply.returned
    /\ request.fn = "build_resource_fork"
    /\ request.position = 257
    /\ Len(reply.value) = 4 + 2 + 50 - 1
    /\ reply.value[4] = 255

(***************************************************************************)
(* C9.  icon_darwin.build_finder_info returns 32 bytes, all zero but the   *)
(* big-endian 16-bit word at offset 8, which is 0x0400 if has_custom_icon  *)
(* OR 0x4000 if is_invisible; for (true, false) the delegated builder of   *)
(* resource_fork and the manual path give the same bytes.                  *)
(***************************************************************************)
C9_FinderInfoFlags ==
    /\ (request.fn = "build_finder_info" /\ reply.returned) =>
          /\ Len(reply.value) = 32
          /\ \A i \in (1..32) \ {9, 10} : reply.value[i] = 0
          /\ U16At(reply.value, 8) =
                (IF request.has_custom_icon THEN 1024 ELSE 0) +
                (IF request.is_invisible THEN 16384 ELSE 0)
    /\ _build_finder_info(TRUE) = ManualFinderInfo(TRUE, FALSE)

C9_Witness ==
    /\ reply.returned
    /\ request.fn = "build_finder_info"
    /\ request.has_custom_icon
    /\ request.is_invisible
    /\ U16At(reply.value, 8) = 17408

(***************************************************************************)
(* C10.  Whenever IconParser.parse succeeds, whichever variant gave the    *)
(* result, the bitmap has len(rgba) = width * height * 4, 0 < width <= 640 *)
(* and 0 < height <= 512.                                                  *)
(***************************************************************************)
C10_BitmapWithinBounds ==
    (request.fn = "parse" /\ reply.returned /\ reply.value.ok) =>
        LET bitmap == reply.value
        IN  /\ Len(bitmap.rgba) = bitmap.width * bitmap.height * 4
            /\ 0 < bitmap.width /\ bitmap.width <= 640
            /\ 0 < bitmap.height /\ bitmap.height <= 512

(***************************************************************************)
(* C11.  parse tries GlowIcons, NewIcons, Traditional in this order and    *)
(* returns what the first successful one returned: a file whose GlowIcons  *)
(* data decodes yields the GlowIcons bitmap whatever else decodes, and a   *)
(* file whose GlowIcons data does not decode but whose NewIcons data does  *)
(* yields the NewIcons bitmap.                                             *)
(***************************************************************************)
HasHeader(data) == Len(data) >= 78 /\ UnpackU16(data, 0) = WB_DISKMAGIC

FirstSuccess(value, glow, new, trad) ==
    /\ glow.ok => (value = glow /\ value.format = "glowicons")
    /\ (~glow.ok /\ new.ok) => (value = new /\ value.format = "newicons")
    /\ (~glow.ok /\ ~new.ok /\ trad.ok) => (value = trad /\ value.format = "traditional")

C11_FirstVariantWins ==
    (request.fn = "parse" /\ reply.returned /\ HasHeader(request.data)) =>
        FirstSuccess(reply.value, _try_glowicons(request.data),
                     _try_newicons(request.data), _try_traditional(request.data))

\* all three variants decode, and parse has returned
AllDecode(glow, new, trad) == glow.ok /\ new.ok /\ trad.ok

C11_Witness ==
    /\ request.fn = "parse" /\ reply.returned /\ HasHeader(request.data)
    /\ AllDecode(_try_glowicons(request.data), _try_newicons(request.data),
                 _try_traditional(request.data))
    /\ reply.value.format = "glowicons"

(***************************************************************************)
(* C12.  parse never raises: it returns a bitmap or the clean "no icon"    *)
(* result.  Fewer than 78 bytes or a wrong magic give "no icon"; a variant *)
(* that meets a bad field fails alone, without an exception, and the next  *)
(* variant decides; when all three fail the result is "no icon".           *)
(***************************************************************************)
\* the variants are looked at in the order parse calls them
Clean(value, glow, new, trad) ==
    /\ ~value.raised /\ ~glow.raised
    /\ value.ok \/ value = NoIcon
    /\ ~glow.ok => value = OrElse(new, trad)
    /\ (~glow.ok /\ ~new.ok) => (~new.raised /\ ~trad.raised /\ value = trad)
    /\ (~glow.ok /\ ~new.ok /\ ~trad.ok) => value = NoIcon

C12_NeverRaises ==
    (request.fn = "parse" /\ reply.returned) =>
        IF HasHeader(request.data)
        THEN Clean(reply.value, _try_glowicons(request.data),
                   _try_newicons(request.data), _try_traditional(request.data))
        ELSE reply.value = NoIcon

\* a chunk of the FORM ICON raised, and a later variant gave the bitmap
RaisedInGlow(data, form_pos) ==
    form_pos # -1 /\ _parse_iff_icon(Slice(data, form_pos, Len(data))).raised

C12_Witness ==
    /\ request.fn = "parse" /\ reply.returned
    /\ RaisedInGlow(request.data, FindFormIcon(request.data, 0))
    /\ reply.value.ok /\ reply.value.format = "newicons"

(***************************************************************************)
(* C13.  A FORM tag that is not followed, 8 bytes on, by ICON does not     *)
(* stop the GlowIcons scan: the chunk stream that is parsed starts at the  *)
(* earliest FORM whose bytes 8..11 are ICON.                               *)
(***************************************************************************)
\* the positions of a FORM tag that is / is not followed by ICON
FormIconPositions(data) ==
    {p \in 0..(Len(data) - 12) :
        Slice(data, p, p + 4) = TagFORM /\ Slice(data, p + 8, p + 12) = TagICON}

Decoys(data) ==
    {p \in 0..(Len(data) - 12) :
        Slice(data, p, p + 4) = TagFORM /\ Slice(data, p + 8, p + 12) # TagICON}

Earliest(positions) ==
    IF positions = {} THEN -1
    ELSE CHOOSE p \in positions : \A q \in positions : p <= q

ScanFinds(data, found, earliest) ==
    /\ found = earliest
    /\ _try_glowicons(data) = GlowIconsAt(data, earliest)

C13_ScanPassesDecoys ==
    (request.fn = "parse" /\ reply.returned) =>
        ScanFinds(request.data, FindFormIcon(request.data, 0),
                  Earliest(FormIconPositions(request.data)))

\* a decoy lies before the FORM ICON, and the bitmap is the GlowIcons one
DecoyBefore(decoys, earliest) == earliest # -1 /\ \E q \in decoys : q < earliest

C13_Witness ==
    /\ request.fn = "parse" /\ reply.returned
    /\ DecoyBefore(Decoys(request.data), Earliest(FormIconPositions(request.data)))
    /\ reply.value.ok /\ reply.value.format = "glowicons"

(***************************************************************************)
(* C14.  In a Traditional bitmap a pixel has alpha 0 exactly when its      *)
(* index is 0 and a path of index-0 pixels, each next to the one before    *)
(* (left, right, up or down), joins it to a pixel on the border; every     *)
(* other pixel has alpha 255.                                              *)
(***************************************************************************)
\* pixels are numbered from 0, row by row
OnBorder(width, height, i) ==
    \/ i % width = 0 \/ i % width = width - 1
    \/ i \div width = 0 \/ i \div width = height - 1

Adjacent4(width, i, j) ==
    \/ i \div width = j \div width /\ (i = j + 1 \/ j = i + 1)
    \/ i % width = j % width /\ (i = j + width \/ j = i + width)

\* the least set that holds reached and every index-0 pixel next to a member
RECURSIVE JoinedTo(_, _, _)
Grown(pixels, width, reached, next) ==
    IF next = reached THEN reached ELSE JoinedTo(pixels, width, next)

JoinedTo(pixels, width, reached) ==
    Grown(pixels, width, reached,
          reached \cup {i \in 0..(Len(pixels) - 1) :
                           pixels[i + 1] = 0 /\ \E j \in reached : Adjacent4(width, i, j)})

BorderJoined(pixels, width, height) ==
    JoinedTo(pixels, width,
             {i \in 0..(Len(pixels) - 1) : pixels[i + 1] = 0 /\ OnBorder(width, height, i)})

AlphaIs(rgba, n, transparent) ==
    /\ Len(rgba) = 4 * n
    /\ \A i \in 0..(n - 1) : rgba[4 * i + 4] = IF i \in transparent THEN 0 ELSE 255

C14_AlphaIsBorderJoined ==
    (request.fn = "traditional_bitmap" /\ reply.returned) =>
        AlphaIs(reply.value.rgba, Len(request.pixels),
                BorderJoined(request.pixels, request.width, request.height))

\* an index-0 pixel that touches a transparent pixel only at a corner is opaque
C14_Witness ==
    /\ request.fn = "traditional_bitmap" /\ reply.returned
    /\ request.width = 3 /\ request.height = 3
    /\ request.pixels = <<0, 1, 0, 1, 0, 1, 0, 1, 0>>
    /\ reply.value.rgba[4] = 0 /\ reply.value.rgba[20] = 255

(***************************************************************************)
(* C15.  For a bitmap of 1..640 by 1..512 pixels and aspect ratio 1 or 2   *)
(* create_icns returns a container that holds the sizes 16, 32, 64, 128    *)
(* and 256 always, the 128 one under the tag ic07, and the size 512        *)
(* exactly when 512 is at most 8 times the larger side of the              *)
(* aspect-corrected bitmap.                                                *)
(***************************************************************************)
\* the entries of a container, read from its bytes: tag, length field, payload
RECURSIVE IcnsEntries(_, _)
IcnsEntryAt(container, pos, length) ==
    IF length < 8 THEN <<>>
    ELSE <<[tag |-> Slice(container, pos, pos + 4), length |-> length,
            payload |-> Slice(container, pos + 8, pos + length)]>>
         \o IcnsEntries(container, pos + length)

IcnsEntries(container, pos) ==
    IF pos + 8 > Len(container) THEN <<>>
    ELSE IcnsEntryAt(container, pos, U32At(container, pos + 4))

\* the width field of the IHDR chunk of a PNG
PngWidth(png) == U32At(png, 16)

EmittedSizes(entries) == {PngWidth(entries[k].payload) : k \in 1..Len(entries)}

ExpectedSizes(max_dim) ==
    {16, 32, 64, 128, 256} \cup (IF 512 > 8 * max_dim THEN {} ELSE {512})

LadderIs(entries, max_dim) ==
    /\ EmittedSizes(entries) = ExpectedSizes(max_dim)
    /\ \E k \in 1..Len(entries) :
          entries[k].tag = <<105, 99, 48, 55>> /\ PngWidth(entries[k].payload) = 128

C15_LadderEmitted ==
    (request.fn = "create_icns" /\ reply.returned) =>
        LadderIs(IcnsEntries(reply.value, 8),
                 Max(request.width, request.height * request.aspect_ratio))

\* a 1 by 1 bitmap: 128 is there, 512 is not
C15_Witness ==
    /\ request.fn = "create_icns" /\ reply.returned
    /\ request.width = 1 /\ request.height = 1
    /\ EmittedSizes(IcnsEntries(reply.value, 8)) = {16, 32, 64, 128, 256}

(***************************************************************************)
(* C16.  A container starts with 'icns'; its length field is its length,   *)
(* 8 plus, for each entry, 8 plus the length of the payload; each entry is *)
(* its tag, a length field of 8 plus the payload's length, and the         *)
(* payload; the entries come in the order given, which for create_icns is  *)
(* by size, smallest first.                                                *)
(***************************************************************************)
Layout(container, entries) ==
    /\ Slice(container, 0, 4) = IcnsMagic
    /\ U32At(container, 4) = Len(container)
    /\ Len(container) = 8 + Sum([k \in 1..Len(entries) |-> 8 + Len(entries[k].payload)])
    /\ \A k \in 1..Len(entries) : entries[k].length = 8 + Len(entries[k].payload)

InOrder(given, entries) ==
    IF given.fn = "build_icns"
    THEN [k \in 1..Len(entries) |-> <<entries[k].tag, entries[k].payload>>] = given.entries
    ELSE /\ PngWidth(entries[1].payload) = 16
         /\ \A j, k \in 1..Len(entries) :
               j < k => PngWidth(entries[j].payload) <= PngWidth(entries[k].payload)

C16_ContainerLayout ==
    reply.returned =>
        /\ Layout(reply.value, IcnsEntries(reply.value, 8))
        /\ InOrder(request, IcnsEntries(reply.value, 8))

\* all six sizes, ten entries
C16_Witness ==
    /\ request.fn = "create_icns" /\ reply.returned
    /\ Len(IcnsEntries(reply.value, 8)) = 10
    /\ Len(reply.value) > 8 + 10 * 8

(***************************************************************************)
(* C17.  In the container of create_icns the size 16 has one entry and     *)
(* every other emitted size has two, under different tags and with the     *)
(* same payload.                                                           *)
(***************************************************************************)
EntriesOfSize(entries, s) == {k \in 1..Len(entries) : PngWidth(entries[k].payload) = s}

Paired(entries, ks) ==
    /\ Cardinality(ks) = 2
    /\ \A j, k \in ks : entries[j].payload = entries[k].payload
    /\ \A j, k \in ks : j # k => entries[j].tag # entries[k].tag

PairedFrom32(entries) ==
    /\ Cardinality(EntriesOfSize(entries, 16)) = 1
    /\ \A s \in EmittedSizes(entries) \ {16} : Paired(entries, EntriesOfSize(entries, s))

C17_PairedTags ==
    (request.fn = "create_icns" /\ reply.returned) =>
        PairedFrom32(IcnsEntries(reply.value, 8))

(***************************************************************************)
(* C18.  _unpack_rle_8bit returns exactly expected_size bytes whatever the *)
(* stream: it cuts what is too much and pads what is missing.              *)
(***************************************************************************)
C18_ExactlyExpectedSize ==
    (request.fn = "_unpack_rle_8bit" /\ reply.returned) =>
        Len(reply.value) = request.expected_size

(***************************************************************************)
(* C19.  Byte-RLE round trip: a stream made of literal runs (control L-1,  *)
(* then the L bytes) and repeat runs (a control byte c >= 128 for          *)
(* (256-c)+1 copies, then the byte), decoded with expected_size the number *)
(* of bytes encoded, gives back those bytes.                               *)
(***************************************************************************)
C19_Rle8RoundTrip ==
    (request.fn = "_unpack_rle_8bit" /\ request.encoded /\ reply.returned) =>
        /\ \A k \in 1..Len(request.data) : request.data[k] \in 0..255
        /\ reply.value = request.original

\* 129 copies (control byte 128) after a literal run of 128 bytes
C19_Witness ==
    /\ request.fn = "_unpack_rle_8bit" /\ request.encoded /\ reply.returned
    /\ Len(request.data) = 129 + 2
    /\ request.data[1] = 127 /\ request.data[130] = 128
    /\ Len(reply.value) = 128 + 129

(***************************************************************************)
(* C20.  Bit-packed RLE round trip at depth 4: a literal run (control k,   *)
(* then k+1 values of 4 bits) followed by a repeat run (control -m, then   *)
(* one value), decoded with the number of values encoded, gives back the   *)
(* values, one per byte, whether or not the literal run ends on a byte     *)
(* boundary.                                                               *)
(***************************************************************************)
C20_BitpackedRoundTrip ==
    (request.fn = "_unpack_rle_bitpacked" /\ reply.returned) =>
        /\ ~reply.value.raised
        /\ reply.value.result = request.original

\* an odd number of literal values ends in the middle of a byte; then 129 copies
C20_Witness ==
    /\ request.fn = "_unpack_rle_bitpacked" /\ reply.returned
    /\ request.literal > 4 /\ (8 + 4 * request.literal) % 8 = 4
    /\ Len(reply.value.result) = request.literal + 129
    /\ reply.value.result[request.literal + 129] = 15

(***************************************************************************)
(* C21.  _parse_tooltypes gives the empty table whenever something it      *)
(* reads runs past the end of the input: an icon file cut short anywhere   *)
(* gives no tool types, never the ones read before the cut.                *)
(***************************************************************************)
C21_OverrunGivesEmpty ==
    (request.fn = "_parse_tooltypes" /\ ~request.whole /\ reply.returned) =>
        reply.value = <<>>

(***************************************************************************)
(* C22.  An IMAG chunk whose compressed image stream ends before           *)
(* width * height pixels were produced still gives a bitmap of the         *)
(* declared width and height.                                              *)
(***************************************************************************)
C22_ShortStreamStillDecodes ==
    (request.fn = "_parse_imag_chunk" /\ reply.returned /\ request.data[4] # 0) =>
        /\ reply.value.ok
        /\ reply.value.width = request.face_info.width
        /\ reply.value.height = request.face_info.height
        /\ Len(reply.value.rgba) = 4 * request.face_info.width * request.face_info.height

(***************************************************************************)
(* C24.  The palette of an IMAG chunk is its decoded colormap when that    *)
(* holds at least the declared number of colours, and otherwise (absent,   *)
(* cut short, too few entries) the default palette its bit depth selects;  *)
(* a pixel index at or beyond the palette's length is black.               *)
(***************************************************************************)
DepthPalette(depth) ==
    IF depth <= 2 THEN WORKBENCH_PALETTE_4
    ELSE IF depth <= 3 THEN MAGICWB_PALETTE_8
    ELSE PALETTE_16

ClaimedPalette(colormap, num_colors, depth) ==
    IF Len(colormap) >= num_colors THEN colormap ELSE DepthPalette(depth)

\* the colormap and the pixel indices the chunk holds
ColormapOf(data) ==
    ReadPalette(data, ColormapPos(data, UnpackU16(data, 6) + 1), UnpackU16(data, 8) + 1,
                data[5] # 0, data[2] + 1)

IndicesOf(data, expected_pixels) ==
    UnpackImage(RawImageData(data, UnpackU16(data, 6) + 1), data[4] # 0, expected_pixels,
                data[6]).result

ColoursAre(rgba, indices, palette) ==
    \A i \in 0..((Len(rgba) \div 4) - 1) :
        <<rgba[4 * i + 1], rgba[4 * i + 2], rgba[4 * i + 3]>>
            = PaletteColor(palette, indices[i + 1])

C24_PaletteChoice ==
    (request.fn = "_parse_imag_chunk" /\ reply.returned /\ reply.value.ok) =>
        ColoursAre(reply.value.rgba,
                   IndicesOf(request.data, request.face_info.width * request.face_info.height),
                   ClaimedPalette(ColormapOf(request.data), request.data[2] + 1,
                                  request.data[6]))

(***************************************************************************)
(* C23.  The bitmap _parse_iff_icon returns is the one decoded from the    *)
(* first image chunk of the stream that yields a bitmap, whatever chunks   *)
(* follow it; an IMAG chunk takes its dimensions from the FACE chunk       *)
(* before it; the walk steps by 8 + the chunk's length rounded up to even  *)
(* and ends with the declared form length or the input.                    *)
(***************************************************************************)
Even(n) == n + (n % 2)

DecodedAt(data, pos, face_info) ==
    IF Slice(data, pos, pos + 4) = TagIMAG
    THEN _parse_imag_chunk(Slice(data, pos + 8, pos + 8 + UnpackU32(data, pos + 4)), face_info)
    ELSE IF Slice(data, pos, pos + 4) = TagARGB
    THEN _parse_argb_chunk(Slice(data, pos + 8, pos + 8 + UnpackU32(data, pos + 4)))
    ELSE NoImage

FaceAt(data, pos, face_info) ==
    IF Slice(data, pos, pos + 4) = TagFACE
    THEN _parse_face_chunk(Slice(data, pos + 8, pos + 8 + UnpackU32(data, pos + 4)))
    ELSE face_info

\* the first bitmap of the walk: nothing after it is looked at
RECURSIVE FirstDecoded(_, _, _, _)
FirstFrom(data, end, pos, face_info, img) ==
    IF img.ok \/ img.raised THEN img
    ELSE FirstDecoded(data, end, pos + 8 + Even(UnpackU32(data, pos + 4)),
                      FaceAt(data, pos, face_info))

FirstDecoded(data, end, pos, face_info) ==
    IF pos >= end \/ pos + 8 > Len(data) THEN NoImage
    ELSE FirstFrom(data, end, pos, face_info, DecodedAt(data, pos, face_info))

SameBitmap(icon, img) ==
    /\ icon.ok
    /\ icon.width = img.width
    /\ icon.height = img.height
    /\ icon.rgba = img.rgba

FirstOf(data) ==
    FirstDecoded(data, Min(Len(data), UnpackU32(data, 4) + 8), 12, [ok |-> FALSE])

C23_FirstImageChunkWins ==
    (request.fn = "_parse_iff_icon" /\ reply.returned /\ FirstOf(request.data).ok) =>
        SameBitmap(reply.value, FirstOf(request.data))

(***************************************************************************)
(* C25.  _planar_to_chunky returns width * height indices in row-major     *)
(* order; bit p of the index of pixel (x, y), for p below the depth, is    *)
(* bit 7 - (x mod 8) of the byte y * rowBytes + x div 8 of plane p when    *)
(* plane_pick has bit p, and bit p of plane_on_off otherwise; no other bit *)
(* is set, so every index is below 2^depth and the mask bits at or above   *)
(* the depth change nothing.                                               *)
(***************************************************************************)
PlaneBit(r, x, y, p) ==
    IF (r.plane_pick \div (2 ^ p)) % 2 = 1
    THEN (r.data[p * r.height * 2 * ((r.width + 15) \div 16)
                 + y * 2 * ((r.width + 15) \div 16) + (x \div 8) + 1]
            \div (2 ^ (7 - (x % 8)))) % 2 = 1
    ELSE (r.plane_on_off \div (2 ^ p)) % 2 = 1

IndexIs(index, r, x, y) ==
    /\ index \in 0..((2 ^ r.depth) - 1)
    /\ \A p \in 0..(r.depth - 1) : ((index \div (2 ^ p)) % 2 = 1) <=> PlaneBit(r, x, y, p)

C25_PlanarToChunky ==
    (request.fn = "_planar_to_chunky" /\ reply.returned) =>
        /\ Len(reply.value) = request.width * request.height
        /\ \A y \in 0..(request.height - 1) : \A x \in 0..(request.width - 1) :
              IndexIs(reply.value[y * request.width + x + 1], request, x, y)

\* a word-padded row, two rows, planes both picked and constant, and planes
\* of the masks beyond the depth
C25_Witness ==
    /\ request.fn = "_planar_to_chunky"
    /\ reply.returned
    /\ request.width = 17
    /\ request.height = 2
    /\ request.depth = 3
    /\ request.plane_pick = 251
    /\ request.plane_on_off = 4
    /\ Cardinality({reply.value[i] : i \in 1..Len(reply.value)}) > 2

(***************************************************************************)
(* C26.  In a NewIcons text a character in 0x20..0x6F decodes to c - 0x20, *)
(* one in 0xA1..0xD0 to c - 0xA1 + 0x50, and a run marker m in 0xD1..0xFF  *)
(* takes the character after it and gives m - 0xD0 copies of its value;    *)
(* every value is in 0..0x7F; a palette channel made of the value v is     *)
(* min(255, (v << 2) + ((v << 2) >> 6)), within 0..255, 0 for 0 and 255    *)
(* for 63.                                                                 *)
(***************************************************************************)
ClaimedValue(c) == IF c <= 111 THEN c - 32 ELSE c - 161 + 80

RECURSIVE ClaimedDecode(_)
ClaimedDecode(text) ==
    IF text = <<>> THEN <<>>
    ELSE IF text[1] >= 209
    THEN [k \in 1..(text[1] - 208) |-> ClaimedValue(text[2])]
             \o ClaimedDecode(SubSeq(text, 3, Len(text)))
    ELSE <<ClaimedValue(text[1])>> \o ClaimedDecode(Tail(text))

ClaimedChannel(v) ==
    IF v * 4 + ((v * 4) \div 64) < 255 THEN v * 4 + ((v * 4) \div 64) ELSE 255

ChannelsRight(text, rgba) ==
    /\ rgba[1] = ClaimedChannel(ClaimedValue(text[5]))
    /\ rgba[1] \in 0..255
    /\ (ClaimedValue(text[5]) = 0 => rgba[1] = 0)
    /\ (ClaimedValue(text[5]) = 63 => rgba[1] = 255)
    /\ rgba[2] = 255
    /\ rgba[3] = 0

C26_NewIconsDecoding ==
    (request.fn = "_decode_newicons_image" /\ reply.returned) =>
        /\ reply.value = NewIconsHeader(ClaimedDecode(request.data))
        /\ \A k \in 1..Len(ClaimedDecode(request.data)) :
              ClaimedDecode(request.data)[k] \in 0..127
        /\ request.family = "channel" => ChannelsRight(request.data, reply.value.rgba)

\* a run of 46 copies of the value 1 in the pixels of a 48 by 1 image
C26_Witness ==
    /\ request.fn = "_decode_newicons_image"
    /\ reply.returned
    /\ request.family = "run"
    /\ Len(request.data) = 13
    /\ request.data[11] = 254
    /\ request.data[12] = 33
    /\ reply.value.ok
    /\ reply.value.width = 48
    /\ \A i \in 0..45 : reply.value.rgba[4 * i + 1] = 255
    /\ reply.value.rgba[4 * 46 + 1] = 0

(***************************************************************************)
(* C27.  Whatever puts, gets, invalidates and clears came before, the      *)
(* number memory_usage reports is the sum of the lengths of the entries    *)
(* stored, and is not negative.                                            *)
(***************************************************************************)
C27_MemoryUsageIsStoredBytes ==
    (op.name = "memory_usage") =>
        /\ ret = RetInt(SumLen(cache))
        /\ ret.val >= 0

(***************************************************************************)
(* C28.  put(k, b) never evicts the entry it inserts: a get(k) right       *)
(* after it returns b, whatever was stored before and whatever the size of *)
(* b; when b is larger than max_memory every other entry has been evicted. *)
(***************************************************************************)
GetReturns(p, d) ==
    get_result(cache', current_memory', p, now').ret = RetBytes(d)

C28_PutKeepsItsEntry ==
    [][\A p \in Paths, d \in Datas :
          put(p, d) => /\ GetReturns(p, d)
                       /\ (d.len > max_memory => Keys(cache') = {p})]_vars

(***************************************************************************)
(* C29.  With icons enabled and container bytes at hand, get_xattr_value   *)
(* has a value for a name exactly when get_listxattr_for_path lists the    *)
(* name for the same path and has_icon; a path ending in ".info" has the   *)
(* FinderInfo attribute only, its flags being 0x4000 alone, and never the  *)
(* resource fork, has_icon or not.                                         *)
(***************************************************************************)
Listed(name, names) == \E i \in 1..Len(names) : names[i] = name

InvisibleOnly == [i \in 1..32 |-> IF i = 9 THEN 64 ELSE 0]

SidecarValue(name, value) ==
    IF name = "com.apple.FinderInfo" THEN value = RetBytes(InvisibleOnly) ELSE value = RetNone

C29_ListingAgreesWithReads ==
    /\ (request.fn = "get_xattr_value" /\ reply.returned /\ request.icons_enabled
          /\ request.icns_data # <<>>) =>
            /\ (reply.value # RetNone) <=>
                   Listed(request.name,
                          get_listxattr_for_path(request.path, request.has_icon))
            /\ is_info_file(request.path) => SidecarValue(request.name, reply.value)
    /\ (request.fn = "get_listxattr_for_path" /\ reply.returned /\ request.icons_enabled) =>
            /\ \A name \in XattrNames :
                  Listed(name, reply.value) <=>
                      get_xattr_value(TRUE, request.path, name, <<105>>, request.has_icon, 0)
                          # RetNone
            /\ is_info_file(request.path) => reply.value = <<"com.apple.FinderInfo">>

(***************************************************************************)
(* C30.  What the pops of a queue have returned is, at every moment, the   *)
(* beginning of what was queued to that queue, in the order queued: first  *)
(* in first out, nothing twice, nothing skipped, nothing from another      *)
(* port or from the default queue; and a pop returns None only when        *)
(* everything queued to its queue has been returned.                       *)
(***************************************************************************)
IsPrefix(a, b) == Len(a) <= Len(b) /\ SubSeq(b, 1, Len(a)) = a

C30_FifoExactlyOnce ==
    (op.name \in {"queue_msg", "pop_msg", "queue_default", "pop_default"}) =>
        /\ \A q \in PortAddrs \cup {Default} : IsPrefix(delivered[q], queued[q])
        /\ (op.name \in {"pop_msg", "pop_default"} /\ ret = RetNone) =>
               delivered[op.port] = queued[op.port]
        /\ (op.name \in {"pop_msg", "pop_default"} /\ ret # RetNone) =>
               ret = RetInt(delivered[op.port][Len(delivered[op.port])])

\* two different messages popped from one port in their order, while another
\* port and the default queue had messages of their own
C30_Witness ==
    /\ op.name = "pop_msg"
    /\ op.port = 4096
    /\ ret = RetInt(20)
    /\ delivered[4096] = <<10, 20>>
    /\ queued[8192] = <<20>>
    /\ delivered[8192] = <<>>
    /\ queued[Default] = <<10>>

====
